---- MODULE Spec2Model ----
(***************************************************************************)
(* Startup Trends multi-agent system (src/startup_agents.py): the corpus   *)
(* store (SQLiteDAO), ingestion (Parser.fetch_and_store), the evidence     *)
(* policy and retrieval/synthesis controller (RetrievalSynthesisAgent),    *)
(* the intake and validators, and Orchestrator.run_query.                  *)
(*                                                                         *)
(* Strings are sequences of one-character strings, so that str.strip, the  *)
(* regular expressions and SQL LIKE are computed rather than assumed.      *)
(* A Cyrillic letter is written as the token "cyr_x" (lower case) or       *)
(* "CYR_X" (upper case).                                                   *)
(***************************************************************************)
EXTENDS Integers, Sequences, FiniteSets, TLC

VARIABLES
    docs,        \* rows of the SQLite table docs
    log,         \* records appended to the JSONL file, oldest first
    last,        \* the last store operation and what it returned
    prev,        \* the store operation before it
    envRelax,    \* the environment's DEMO_EVIDENCE_RELAX: EnvUnset or its text
    relax,       \* DEMO_EVIDENCE_RELAX
    hasKey,      \* OPENROUTER_API_KEY is set
    pc,          \* position of Orchestrator.run_query
    userText,    \* run_query's argument
    uq,          \* the query object (a JSON value)
    items,       \* the evidence items of RetrievalSynthesisAgent.run
    gate,        \* outcome of the evidence gate: "none", "pass", "fail"
    raw,         \* text returned by RetrievalSynthesisAgent.run
    answer,      \* text returned by run_query
    exc,         \* exception raised to run_query's caller, "" when none
    intakeCalls, \* Generator invocations made by IntakeAgent.run
    synthCalls,  \* Generator invocations made by RetrievalSynthesisAgent.run
    gen,         \* what the last Generator invocation came to
    reply,       \* the last Generator invocation's outcome, with its text
    elapsed,     \* seconds of wall clock run_query has been running
    evIn,        \* argument of a stand-alone _evidence_ok call
    evOut,       \* its result
    repIn,       \* argument of a stand-alone ValidatorOutAgent.run call
    repOut,      \* its result
    kwIn,        \* keywords of a stand-alone recent_docs_keywords call
    daysIn,      \* its window in days
    rowsOut,     \* its result
    ing,         \* the Orchestrator.ingest calls in progress, one per caller
    fbIn,        \* arguments of a stand-alone _local_fallback call
    fbOut        \* its result, and what ValidatorOutAgent.run makes of it

storeVars == <<docs, log, last, prev>>
cfgVars == <<envRelax, relax, hasKey>>
queryVars ==
    <<pc, userText, uq, items, gate, raw, answer, exc, intakeCalls, synthCalls, gen,
      reply, elapsed>>
moreVars == <<ing, fbIn, fbOut>>
pureVarsButIng == <<evIn, evOut, repIn, repOut, kwIn, daysIn, rowsOut, fbIn, fbOut>>
pureVars == <<evIn, evOut, repIn, repOut, kwIn, daysIn, rowsOut, moreVars>>
vars == <<docs, log, last, prev, envRelax, relax, hasKey, pc, userText, uq, items, gate, raw,
          answer, exc, intakeCalls, synthCalls, gen, reply, elapsed, evIn, evOut, repIn, repOut,
          kwIn, daysIn, rowsOut, ing, fbIn, fbOut>>

(***************************************************************************)
(* Strings                                                                 *)
(***************************************************************************)
Whitespace == {" "}

RECURSIVE LStrip(_)
LStrip(s) ==
    IF s # <<>> /\ Head(s) \in Whitespace THEN LStrip(Tail(s)) ELSE s

RECURSIVE RStrip(_)
RStrip(s) ==
    IF s # <<>> /\ s[Len(s)] \in Whitespace
    THEN RStrip(SubSeq(s, 1, Len(s) - 1))
    ELSE s

\* str.strip()
Strip(s) == RStrip(LStrip(s))

\* str.startswith(p)
StartsWith(s, p) == Len(s) >= Len(p) /\ SubSeq(s, 1, Len(p)) = p

\* s[:n]
\* a mistaken slice that keeps everything
PrefixWhole(s, n) == s

Prefix(s, n) == IF Len(s) > n THEN SubSeq(s, 1, n) ELSE s

\* the longest prefix of s holding no "/"
RECURSIVE UpToSlash(_)
UpToSlash(s) ==
    IF s = <<>> \/ Head(s) = "/" THEN <<>> ELSE <<Head(s)>> \o UpToSlash(Tail(s))

S_http == <<"h", "t", "t", "p", ":", "/", "/">>
S_https == <<"h", "t", "t", "p", "s", ":", "/", "/">>
S_unknown == <<"u", "n", "k", "n", "o", "w", "n">>

\* re.match(r"^https?://([^/]+)", url.strip()): group 1, or "unknown"
domain_of(url) ==
    LET s == Strip(url)
        rest == IF StartsWith(s, S_https) THEN SubSeq(s, Len(S_https) + 1, Len(s))
                ELSE IF StartsWith(s, S_http) THEN SubSeq(s, Len(S_http) + 1, Len(s))
                ELSE <<>>
        host == UpToSlash(rest)
    IN  IF host # <<>> THEN host ELSE S_unknown

(***************************************************************************)
(* JSON values as Python holds them, and texts.  A text is the             *)
(* serialisation of a JSON value ("json"), prose around one brace-delimited*)
(* object ("wrapped"), or characters that hold no JSON at all ("plain").   *)
(* A fixed literal of the source is written as a one-token string.         *)
(***************************************************************************)
JNone == [t |-> "null"]
JBool(b) == [t |-> "bool", b |-> b]
JNum(n) == [t |-> "num", n |-> n]
JStr(s) == [t |-> "str", s |-> s]
JList(xs) == [t |-> "list", xs |-> xs]
JObj(kv) == [t |-> "obj", kv |-> kv]

IsNone(v) == v.t = "null"
IsStr(v) == v.t = "str"
IsList(v) == v.t = "list"
IsObj(v) == v.t = "obj"

\* bool(v)
Truthy(v) ==
    CASE v.t = "null" -> FALSE
      [] v.t = "bool" -> v.b
      [] v.t = "num" -> v.n # 0
      [] v.t = "str" -> v.s # <<>>
      [] v.t = "list" -> v.xs # <<>>
      [] v.t = "obj" -> DOMAIN v.kv # {}

\* dict.get(k, default)
Get(o, k, default) == IF k \in DOMAIN o.kv THEN o.kv[k] ELSE default

\* dict.setdefault(k, v)
SetDefault(o, k, v) == IF k \in DOMAIN o.kv THEN o ELSE JObj((k :> v) @@ o.kv)

\* o[k] = v
Put(o, k, v) == JObj((k :> v) @@ o.kv)

TJson(v) == [k |-> "json", v |-> v]
TWrapped(v) == [k |-> "wrapped", v |-> v]
TPlain(s) == [k |-> "plain", s |-> s]

\* json.dumps(v, ensure_ascii=False)
Dumps(v) == TJson(v)

\* json.loads(text): the value, or a raised JSONDecodeError
Loads(text) ==
    IF text.k = "json" THEN [ok |-> TRUE, v |-> text.v] ELSE [ok |-> FALSE, v |-> JNone]

\* re.search(r"\{.*\}", text, re.S): from the first "{" to the last "}"
BraceSpan(text) ==
    CASE text.k = "wrapped" -> [found |-> TRUE, sub |-> TJson(text.v)]
      [] text.k = "plain" ->
            LET opens == {i \in 1..Len(text.s) : text.s[i] = "{"}
                closes == {j \in 1..Len(text.s) : text.s[j] = "}"}
            IN  IF \E i \in opens, j \in closes : i < j
                THEN LET i == CHOOSE a \in opens : \A b \in opens : a <= b
                         j == CHOOSE a \in closes : \A b \in closes : a >= b
                     IN  [found |-> TRUE, sub |-> TPlain(SubSeq(text.s, i, j))]
                ELSE [found |-> FALSE, sub |-> text]

Digits == <<"0", "1", "2", "3", "4", "5", "6", "7", "8", "9">>
IsDigit(c) == \E i \in 1..Len(Digits) : Digits[i] = c

\* the number a run of digits spells
RECURSIVE DigitsValue(_)
DigitsValue(s) ==
    IF s = <<>> THEN 0
    ELSE 10 * DigitsValue(SubSeq(s, 1, Len(s) - 1))
         + ((CHOOSE i \in 1..Len(Digits) : Digits[i] = s[Len(s)]) - 1)

RECURSIVE NatStr(_)
NatStr(n) == IF n < 10 THEN <<Digits[n + 1]>> ELSE NatStr(n \div 10) \o <<Digits[(n % 10) + 1]>>

\* str(n) of an int
IntStr(n) == IF n < 0 THEN <<"-">> \o NatStr(0 - n) ELSE NatStr(n)

RECURSIVE ZeroPad(_, _)
ZeroPad(s, w) == IF Len(s) >= w THEN s ELSE ZeroPad(<<"0">> \o s, w)

\* iso_date(d): YYYY-MM-DD
iso_date(d) ==
    ZeroPad(NatStr(d[1]), 4) \o <<"-">> \o ZeroPad(NatStr(d[2]), 2)
        \o <<"-">> \o ZeroPad(NatStr(d[3]), 2)

\* re.match(r"^\d{4}-\d{2}-\d{2}$", s)
MatchesDate(s) ==
    /\ Len(s) = 10
    /\ \A i \in {1, 2, 3, 4, 6, 7, 9, 10} : IsDigit(s[i])
    /\ s[5] = "-" /\ s[8] = "-"

\* the keys of a dict in the order Python keeps them
RECURSIVE KeySeq(_)
KeySeq(K) ==
    IF K = {} THEN <<>>
    ELSE LET k == CHOOSE x \in K : TRUE IN <<k>> \o KeySeq(K \ {k})

RECURSIVE PyRepr(_)
RECURSIVE ReprJoin(_, _)
RECURSIVE ReprPairs(_, _)
\* ", ".join(repr(x) for x in xs)
ReprJoin(xs, i) ==
    IF i > Len(xs) THEN <<>>
    ELSE (IF i > 1 THEN <<",", " ">> ELSE <<>>) \o PyRepr(xs[i]) \o ReprJoin(xs, i + 1)

ReprPairs(o, ks) ==
    IF ks = <<>> THEN <<>>
    ELSE <<"'", Head(ks), "'", ":", " ">> \o PyRepr(o.kv[Head(ks)])
         \o (IF Len(ks) > 1 THEN <<",", " ">> ELSE <<>>) \o ReprPairs(o, Tail(ks))

\* repr(v)
PyRepr(v) ==
    CASE v.t = "null" -> <<"N", "o", "n", "e">>
      [] v.t = "bool" -> IF v.b THEN <<"T", "r", "u", "e">> ELSE <<"F", "a", "l", "s", "e">>
      [] v.t = "num" -> IntStr(v.n)
      [] v.t = "str" -> <<"'">> \o v.s \o <<"'">>
      [] v.t = "list" -> <<"[">> \o ReprJoin(v.xs, 1) \o <<"]">>
      [] v.t = "obj" -> <<"{">> \o ReprPairs(v, KeySeq(DOMAIN v.kv)) \o <<"}">>

\* str(v)
PyStr(v) == IF v.t = "str" THEN v.s ELSE PyRepr(v)

(***************************************************************************)
(* Dates.  A date is <<year, month, day>>; an ISO date string orders as    *)
(* its date does, so published_at >= since is decided on day numbers.      *)
(***************************************************************************)
IsLeap(y) == (y % 4 = 0 /\ y % 100 # 0) \/ y % 400 = 0

DaysInMonth(y, m) ==
    IF m = 2 THEN (IF IsLeap(y) THEN 29 ELSE 28)
    ELSE IF m \in {4, 6, 9, 11} THEN 30 ELSE 31

RECURSIVE DaysBeforeMonth(_, _)
DaysBeforeMonth(y, m) ==
    IF m <= 1 THEN 0 ELSE DaysBeforeMonth(y, m - 1) + DaysInMonth(y, m - 1)

\* date.toordinal()
Ordinal(d) ==
    LET y == d[1] - 1
    IN  y * 365 + (y \div 4) - (y \div 100) + (y \div 400)
        + DaysBeforeMonth(d[1], d[2]) + d[3]

\* now_utc_date()
Today == <<2025, 11, 20>>

\* what datetime.fromisoformat accepts of a "YYYY-MM-DD" text
ValidDate(d) ==
    /\ Len(d) = 3
    /\ d[1] \in 1..9999
    /\ d[2] \in 1..12
    /\ d[3] \in 1..DaysInMonth(d[1], d[2])

\* datetime.fromisoformat(s).date() for a text of at most ten characters:
\* YYYY-MM-DD or YYYYMMDD naming a day of the calendar, else ValueError.
\* (Texts of the week forms YYYY-Www-D and YYYYWwwD are not among the dates
\* the pages give.)
FromIsoFormat(s) ==
    LET digitsAt(I) == \A i \in I : IsDigit(s[i])
        d == IF Len(s) = 10 /\ s[5] = "-" /\ s[8] = "-" /\ digitsAt({1, 2, 3, 4, 6, 7, 9, 10})
             THEN <<DigitsValue(SubSeq(s, 1, 4)), DigitsValue(SubSeq(s, 6, 7)),
                    DigitsValue(SubSeq(s, 9, 10))>>
             ELSE IF Len(s) = 8 /\ digitsAt(1..8)
             THEN <<DigitsValue(SubSeq(s, 1, 4)), DigitsValue(SubSeq(s, 5, 6)),
                    DigitsValue(SubSeq(s, 7, 8))>>
             ELSE <<>>
    IN  [ok |-> ValidDate(d), d |-> d]

\* a mistaken _normalize_date that stores whatever the text spells
NormalizeUnchecked(dt_str) == FromIsoFormat(Prefix(dt_str, 10)).d

\* Parser._normalize_date: the date stored, written by isoformat()
normalize_date(dt_str) ==
    LET parsed == FromIsoFormat(Prefix(dt_str, 10))
    IN  IF parsed.ok THEN parsed.d ELSE Today

(***************************************************************************)
(* The corpus store                                                        *)
(***************************************************************************)
\* hashlib.md5 and hashlib.sha256, taken as collision-free
Md5(s) == [md5 |-> s]
Sha256(s) == [sha256 |-> s]

\* SQLiteDAO._hash_ud
hash_ud(url, title) == Sha256(Strip(url) \o <<"|", "|">> \o Strip(title))

\* the row upsert_doc writes for the document d
RowOf(d) ==
    [id |-> d.id, url |-> d.url, domain |-> d.domain, lang |-> d.lang,
     published_at |-> d.published_at, title |-> d.title, tags |-> d.tags,
     summary |-> d.summary, text |-> d.text, h_ud |-> hash_ud(d.url, d.title)]

\* a mistaken upsert that inserts without resolving the conflict on id
UpsertNoConflict(rows, d) == rows \cup {RowOf(d)}

\* a mistaken upsert that keeps the stored row on a conflict on id
UpsertKeepOld(rows, d) ==
    IF \E r \in rows : r.id = d.id THEN rows ELSE rows \cup {RowOf(d)}

\* SQLiteDAO.upsert_doc: INSERT ... ON CONFLICT(id) DO UPDATE SET ...
upsert_doc(rows, d) == {r \in rows : r.id # d.id} \cup {RowOf(d)}

\* a mistaken check that looks the url up and ignores the title
ExistsByUrl(rows, url, title) == \E r \in rows : Strip(r.url) = Strip(url)

\* a mistaken check that never finds a row
ExistsNever(rows, url, title) == FALSE

\* SQLiteDAO.exists_ud: SELECT 1 FROM docs WHERE h_ud=? LIMIT 1
exists_ud(rows, url, title) == \E r \in rows : r.h_ud = hash_ud(url, title)

(***************************************************************************)
(* Ingestion                                                               *)
(***************************************************************************)
\* number of store operations one behaviour performs
MaxOps == 3

U_a1 == <<"h", "t", "t", "p", ":", "/", "/", "a", "/", "1">>
U_a1pad == <<" ">> \o U_a1
U_b1 == <<"h", "t", "t", "p", "s", ":", "/", "/", "b", "/", "1">>
U_ftp == <<"f", "t", "p", ":", "/", "/", "c">>

\* urls handed to fetch_and_store
IngestUrls == {U_a1, U_a1pad, U_b1}

T_cafe == <<"c", "a", "f", "e">>
T_oil == <<"o", "i", "l">>

\* published dates as pages give them
D_recent == <<"2", "0", "2", "5", "-", "1", "1", "-", "1", "0">>
D_stamped == <<"2", "0", "2", "5", "-", "1", "1", "-", "1", "2", "T", "0", "8", ":", "0", "0">>
D_basic == <<"2", "0", "2", "5", "1", "1", "1", "0">>
D_old == <<"2", "0", "2", "4", "-", "0", "6", "-", "0", "1">>
D_invalid == <<"2", "0", "2", "4", "-", "1", "3", "-", "4", "0">>

\* what requests.get returns for a url: the <title> text (<<>> for a page
\* without one), the joined <p> texts, and the published date the page
\* gives as a text: a recent day (plain, with a time of day, or in the basic
\* form), over a year old, the invalid 2024-13-40, or none (the empty text)
Pages ==
    { [title |-> <<"K">>, text |-> T_cafe, date |-> D_recent],
      [title |-> <<"K">>, text |-> T_oil, date |-> D_invalid],
      [title |-> <<"L", " ">>, text |-> T_cafe, date |-> D_old],
      [title |-> <<"L", " ">>, text |-> T_oil, date |-> D_basic],
      [title |-> <<>>, text |-> T_cafe, date |-> <<>>],
      [title |-> <<>>, text |-> T_oil, date |-> D_stamped] }

\* title = soup.title.text.strip() if soup.title and soup.title.text else url
TitleOf(url, page) == IF page.title # <<>> THEN Strip(page.title) ELSE url

\* the document fetch_and_store builds (lang_hint "ru", no tags)
DocOf(url, page) ==
    [id |-> Md5(url), url |-> url, domain |-> domain_of(url), lang |-> "ru",
     published_at |-> normalize_date(page.date), title |-> TitleOf(url, page),
     tags |-> <<>>, summary |-> <<>>, text |-> page.text]

NoDoc ==
    [id |-> Md5(<<>>), url |-> <<>>, domain |-> <<>>, lang |-> "",
     published_at |-> <<>>, title |-> <<>>, tags |-> <<>>, summary |-> <<>>,
     text |-> <<>>]

NoOp ==
    [seq |-> 0, op |-> "none", ret |-> "none", doc |-> NoDoc, before |-> 0, raw |-> <<>>]

\* the table after fetch_and_store(url) has run on `page`
StoreAfterFetch(rows, url, page) ==
    IF exists_ud(rows, url, TitleOf(url, page))
    THEN rows
    ELSE upsert_doc(rows, DocOf(url, page))

\* Parser.fetch_and_store(url) when requests.get returns `page`
FetchAndStore(url, page) ==
    LET doc == DocOf(url, page)
        dup == exists_ud(docs, url, doc.title)
    IN  /\ last.seq < MaxOps
        /\ docs' = StoreAfterFetch(docs, url, page)
        /\ log' = IF dup THEN log ELSE Append(log, doc)
        /\ last' = [seq |-> last.seq + 1, op |-> "fetch_and_store",
                    ret |-> IF dup THEN "False" ELSE "True", doc |-> doc,
                    before |-> Cardinality(docs), raw |-> page.date]
        /\ prev' = last

\* Parser.fetch_and_store(url) when requests.get or raise_for_status raises
FetchRaises(url) ==
    /\ last.seq < MaxOps
    /\ last' = [seq |-> last.seq + 1, op |-> "fetch_and_store", ret |-> "raise",
                doc |-> [NoDoc EXCEPT !.url = url], before |-> Cardinality(docs),
                raw |-> <<>>]
    /\ prev' = last
    /\ UNCHANGED <<docs, log>>

\* documents a caller hands to SQLiteDAO.upsert_doc directly
DirectDocs ==
    { [id |-> i, url |-> u, domain |-> domain_of(u), lang |-> "ru",
       published_at |-> <<2025, 11, 10>>, title |-> t, tags |-> <<>>,
       summary |-> <<>>, text |-> T_oil] :
      i \in {Md5(U_a1), Md5(<<"x">>)}, u \in {U_a1, U_b1},
      t \in {<<"K">>, <<"K", " ">>} }

\* SQLiteDAO.upsert_doc(d) called directly
UpsertDirect(d) ==
    /\ last.seq < MaxOps
    /\ docs' = upsert_doc(docs, d)
    /\ last' = [seq |-> last.seq + 1, op |-> "upsert_doc", ret |-> "None",
                doc |-> d, before |-> Cardinality(docs), raw |-> <<>>]
    /\ prev' = last
    /\ UNCHANGED log

(***************************************************************************)
(* Retrieval: keyword expansion, the windowed keyword query, the evidence  *)
(* policy                                                                  *)
(***************************************************************************)
EVIDENCE_WINDOW_DAYS == 90
RowLimit == 500
SearchCap == 100
SnippetLen == 1200

UpperAscii == <<"A", "B", "C", "D", "E", "F", "G", "H", "I", "J", "K", "L", "M",
                "N", "O", "P", "Q", "R", "S", "T", "U", "V", "W", "X", "Y", "Z">>
LowerAscii == <<"a", "b", "c", "d", "e", "f", "g", "h", "i", "j", "k", "l", "m",
                "n", "o", "p", "q", "r", "s", "t", "u", "v", "w", "x", "y", "z">>
UpperCyr == <<"CYR_A", "CYR_E", "CYR_F", "CYR_K", "CYR_O">>
LowerCyr == <<"cyr_a", "cyr_e", "cyr_f", "cyr_k", "cyr_o">>

\* the letter at the place in `to` that c has in `from`, or c itself
MapChar(c, from, to) ==
    IF \E i \in 1..Len(from) : from[i] = c
    THEN to[CHOOSE i \in 1..Len(from) : from[i] = c]
    ELSE c

\* SQLite's LIKE folds the case of ASCII letters only
FoldAscii(c) == MapChar(c, UpperAscii, LowerAscii)

\* str.lower() folds every letter
LowerChar(c) == MapChar(MapChar(c, UpperAscii, LowerAscii), UpperCyr, LowerCyr)
UpperChar(c) == MapChar(MapChar(c, LowerAscii, UpperAscii), LowerCyr, UpperCyr)
Lower(s) == [i \in 1..Len(s) |-> LowerChar(s[i])]

\* str.capitalize()
Capitalize(s) ==
    [i \in 1..Len(s) |-> IF i = 1 THEN UpperChar(s[i]) ELSE LowerChar(s[i])]

\* k in s
Contains(s, k) ==
    \E i \in 0..(Len(s) - Len(k)) : SubSeq(s, i + 1, i + Len(k)) = k

\* s LIKE pattern: % matches any run, _ any one character
RECURSIVE LikeMatch(_, _)
LikeMatch(s, pattern) ==
    IF pattern = <<>> THEN s = <<>>
    ELSE IF Head(pattern) = "%"
         THEN LikeMatch(s, Tail(pattern))
              \/ (s # <<>> /\ LikeMatch(Tail(s), pattern))
         ELSE /\ s # <<>>
              /\ (Head(pattern) = "_" \/ FoldAscii(Head(pattern)) = FoldAscii(Head(s)))
              /\ LikeMatch(Tail(s), Tail(pattern))

W_kofeynya == <<"cyr_k", "cyr_o", "cyr_f", "cyr_e", "cyr_j", "cyr_n", "cyr_ya">>
W_kofe == <<"cyr_k", "cyr_o", "cyr_f", "cyr_e">>
W_kafe == <<"cyr_k", "cyr_a", "cyr_f", "cyr_e">>
W_cafe == <<"c", "a", "f", "e">>
W_horeca == <<"h", "o", "r", "e", "c", "a">>
W_foodservice == <<"f", "o", "o", "d", "s", "e", "r", "v", "i", "c", "e">>
W_retail == <<"r", "e", "t", "a", "i", "l">>

\* KEYWORDS, in the order of the dict
KEYWORDS ==
    << [key |-> W_kofeynya,
        arr |-> <<W_kofeynya, W_kofe, <<"c", "o", "f", "f", "e", "e">>, W_cafe, W_kafe,
                  W_horeca, W_foodservice>>],
       [key |-> W_horeca,
        arr |-> <<W_horeca, W_foodservice,
                  <<"cyr_r", "cyr_e", "cyr_s", "cyr_t", "cyr_o", "cyr_r", "cyr_a", "cyr_n">>,
                  W_kafe, W_kofe,
                  <<"f", "o", "o", "d", "&", "b", "e", "v", "e", "r", "a", "g", "e">>,
                  <<"f", "&", "b">>>>],
       [key |-> W_retail,
        arr |-> <<<<"cyr_r", "cyr_i", "cyr_t", "cyr_e", "cyr_j", "cyr_l">>,
                  W_retail,
                  <<"cyr_m", "cyr_a", "cyr_g", "cyr_a", "cyr_z", "cyr_i", "cyr_n">>,
                  <<"e", "c", "o", "m", "m", "e", "r", "c", "e">>,
                  <<"cyr_o", "cyr_m", "cyr_n", "cyr_i", "cyr_k", "cyr_a", "cyr_n", "cyr_a", "cyr_l">>,
                  <<"cyr_m", "cyr_a", "cyr_r", "cyr_k", "cyr_e", "cyr_t", "cyr_p", "cyr_l",
                    "cyr_e", "cyr_j", "cyr_s">> >>] >>

\* a mistaken de-duplication that keeps every occurrence
DedupNone(xs) == xs

\* list(dict.fromkeys(xs)): first occurrences, in order
RECURSIVE Dedup(_)
Dedup(xs) ==
    IF xs = <<>> THEN <<>>
    ELSE LET init == Dedup(SubSeq(xs, 1, Len(xs) - 1))
             x == xs[Len(xs)]
         IN  IF \E i \in 1..Len(init) : init[i] = x THEN init ELSE Append(init, x)

RECURSIVE ExpandFrom(_, _, _)
ExpandFrom(base, domain, k) ==
    IF k > Len(KEYWORDS) THEN base
    ELSE ExpandFrom(IF Contains(Lower(domain), KEYWORDS[k].key)
                    THEN base \o KEYWORDS[k].arr ELSE base,
                    domain, k + 1)

\* RetrievalSynthesisAgent._expand_kws for a domain that is a string
expand_kws(domain) ==
    IF domain = <<>> THEN <<>> ELSE Dedup(ExpandFrom(<<domain>>, domain, 1))

\* the WHERE clause of recent_docs_keywords
Qualifies(r, keywords, days) ==
    /\ Ordinal(r.published_at) >= Ordinal(Today) - days
    /\ \/ keywords = <<>>
       \/ \E i \in 1..Len(keywords) :
             LET like == <<"%">> \o keywords[i] \o <<"%">>
             IN  LikeMatch(r.title, like) \/ LikeMatch(r.text, like)

\* the arrangements of the rows G in a row
Perms(G) ==
    { q \in [1..Cardinality(G) -> G] :
        \A i, j \in 1..Cardinality(G) : i # j => q[i] # q[j] }

\* the orderings of the rows S, all published on the days lo..hi, that
\* ORDER BY published_at DESC allows: later days first, rows of one day in
\* any order
RECURSIVE OrderingsIn(_, _, _)
OrderingsIn(S, lo, hi) ==
    IF S = {} THEN {<<>>}
    ELSE IF lo = hi THEN Perms(S)
    ELSE LET mid == (lo + hi) \div 2
             later == {r \in S : Ordinal(r.published_at) > mid}
             earlier == {r \in S : Ordinal(r.published_at) <= mid}
         IN  { p \o q : p \in OrderingsIn(later, mid + 1, hi),
                        q \in OrderingsIn(earlier, lo, mid) }

Orderings(S) == OrderingsIn(S, Ordinal(<<1, 1, 1>>), Ordinal(<<9999, 12, 31>>))

\* a mistaken query that forgets LIMIT
RecentNoLimit(rows, keywords, days) ==
    Orderings({r \in rows : Qualifies(r, keywords, days)})

\* SQLiteDAO.recent_docs_keywords: the results the query may return
recent_docs_keywords(rows, keywords, days) ==
    { Prefix(q, RowLimit) : q \in Orderings({r \in rows : Qualifies(r, keywords, days)}) }

\* the evidence item _search makes of a row
ItemOf(r) ==
    [url |-> r.url, title |-> r.title, date |-> r.published_at,
     text |-> IF Len(r.text) > SnippetLen
              THEN Prefix(r.text, SnippetLen) \o <<".", ".", ".">>
              ELSE r.text]

\* RetrievalSynthesisAgent._search: the item lists it may return
search(rows, domain, days) ==
    { [i \in 1..Len(Prefix(q, SearchCap)) |-> ItemOf(q[i])] :
        q \in recent_docs_keywords(rows, expand_kws(domain), days) }

\* the set of domains of the items
UniqDomains(its) == { domain_of(its[i].url) : i \in 1..Len(its) }

\* os.getenv("DEMO_EVIDENCE_RELAX", "0") == "1"
EnvUnset == [set |-> FALSE, s |-> <<>>]
EnvSet(s) == [set |-> TRUE, s |-> s]
EnvValues ==
    {EnvUnset, EnvSet(<<>>), EnvSet(<<"0">>), EnvSet(<<"1">>),
     EnvSet(<<"t", "r", "u", "e">>), EnvSet(<<"1", " ">>)}
GetEnv(env, default) == IF env.set THEN env.s ELSE default

\* a mistaken default that turns the relaxed mode on when nothing is set
RelaxDefaultOn(env) == GetEnv(env, <<"1">>) = <<"1">>

DemoEvidenceRelax(env) == GetEnv(env, <<"0">>) = <<"1">>

\* a mistaken policy that counts items whatever the mode
EvidenceOkByCount(its, relaxed) ==
    [ok |-> Len(its) >= 2, uniq |-> UniqDomains(its)]

\* a mistaken policy that is content with one domain
EvidenceOkOneDomain(its, relaxed) ==
    [ok |-> IF relaxed THEN Len(its) >= 2 ELSE Cardinality(UniqDomains(its)) >= 1,
     uniq |-> UniqDomains(its)]

\* RetrievalSynthesisAgent._evidence_ok
evidence_ok(its, relaxed) ==
    [ok |-> IF relaxed THEN Len(its) >= 2 ELSE Cardinality(UniqDomains(its)) >= 2,
     uniq |-> UniqDomains(its)]

(***************************************************************************)
(* The Generator (OpenRouterClient.chat), intake and the pre-validator     *)
(***************************************************************************)
S_location == <<"Moskva/Rossiya">>
S_general == <<"g", "e", "n", "e", "r", "a", "l">>
S_stub == TJson(JObj([stub |-> JBool(TRUE)]))

\* what a chat call comes to: it raises (requests.post, raise_for_status or
\* r.json), or returns a response without "choices", one whose content is
\* null, or one whose content is a text
GenNone == [k |-> "none", content |-> TPlain(<<>>)]
GenRaise == [k |-> "raise", content |-> TPlain(<<>>)]
GenNoChoices == [k |-> "nochoices", content |-> TPlain(<<>>)]
GenNullContent == [k |-> "nullcontent", content |-> TPlain(<<>>)]
GenReply(text) == [k |-> "reply", content |-> text]

\* OpenRouterClient.chat: without a key, the stub and nothing else
chat(key, replies) ==
    IF ~key THEN {GenReply(S_stub)}
    ELSE {GenRaise, GenNoChoices, GenNullContent} \cup {GenReply(x) : x \in replies}

\* whole seconds one chat call may block. Without a key the stub is returned
\* at once. With one, requests.post(..., timeout=REQ_TIMEOUT) bounds the wait
\* for the connection and each wait for further bytes of the response, not
\* the call as a whole.
REQ_TIMEOUT == 30
PIPELINE_HARD_TIMEOUT == 120
ChatSeconds(key) == IF key THEN {1, 3 * REQ_TIMEOUT} ELSE {0}

\* what a function call comes to: a value, or an exception raised
Returned(v) == [exc |-> "", v |-> v]
Raised(e) == [exc |-> e, v |-> JNone]

\* IntakeAgent.run(text) given what chat came to
intake_run(text, out) ==
    IF out.k = "raise" THEN Raised("RequestException")
    ELSE LET parsed == IF out.k = "reply" THEN Loads(out.content) ELSE Loads(TPlain(<<>>))
             obj == IF parsed.ok THEN parsed.v
                    ELSE JObj([domain |-> JStr(Prefix(Strip(text), 40)),
                               location |-> JStr(S_location),
                               details |-> JStr(<<>>)])
         IN  IF ~IsObj(obj) THEN Raised("AttributeError")
             ELSE Returned(SetDefault(SetDefault(obj, "location", JStr(S_location)),
                                      "details", JStr(<<>>)))

\* ValidatorInAgent.run
vin_run(q) ==
    SetDefault(SetDefault(SetDefault(q, "domain", JStr(S_general)),
                          "location", JStr(S_location)),
               "details", JStr(<<>>))

(***************************************************************************)
(* RetrievalSynthesisAgent.run                                             *)
(***************************************************************************)
S_advisory == <<"v baze dannyh net informacii po dannomu voprosu ...">>

\* the refusal payload
Refusal ==
    JObj([idea |-> JStr(<<>>),
          local_niches |-> JList(<<>>),
          90_day_plan |-> JList(<<>>),
          risks |-> JList(<<>>),
          unit_economics_notes |-> JList(<<>>),
          sources |-> JList(<<>>),
          evidence |-> JList(<<JStr(S_advisory)>>)])

\* RetrievalSynthesisAgent._json_or_repair; None when nothing parses
json_or_repair(text) ==
    IF Loads(text).ok THEN Loads(text).v
    ELSE LET m == BraceSpan(text)
         IN  IF m.found /\ Loads(m.sub).ok THEN Loads(m.sub).v ELSE JNone

Niche(name, why) == JObj([name |-> JStr(<<name>>), why_now |-> JStr(<<why>>)])
Week(n, tasks) ==
    JObj([week |-> JNum(n),
          tasks |-> JList([i \in 1..Len(tasks) |-> JStr(<<tasks[i]>>)])])
Risk(risk, mitigation) ==
    JObj([risk |-> JStr(<<risk>>), mitigation |-> JStr(<<mitigation>>)])

\* RetrievalSynthesisAgent._local_fallback
local_fallback(q, its) ==
    LET top == Prefix(its, 5)
        srcs == [i \in 1..Len(top) |->
                    [url |-> top[i].url, title |-> Prefix(top[i].title, 80),
                     date |-> iso_date(top[i].date)]]
        d == Get(q, "domain", JNone)
        dom == IF Truthy(d) THEN d.s ELSE S_general
    IN  JObj([idea |-> JStr(Capitalize(dom) \o <<": MVP pod Moskvu/Rossiya ...">>),
              local_niches |-> JList(<<Niche("B2B-podpiski u ofisov", "Predskazuemye rashody"),
                                       Niche("Loyalnost/QR", "Uderzhanie deshevle")>>),
              90_day_plan |-> JList(<<Week(1, <<"Karta konkurentov", "Opros 30", "MVP offera">>),
                                      Week(2, <<"Pilot podpiski", "A/B cena/obem">>),
                                      Week(3, <<"Otchet", "Reshenie">>)>>),
              risks |-> JList(<<Risk("Slabaya konversiya", "A/B + B2B"),
                                Risk("Vysokaya arenda", "Kovorkingi")>>),
              unit_economics_notes |->
                  JList(<<JStr(<<"CAC <= 20% ARPU">>), JStr(<<"GM >= 65-70%">>),
                          JStr(<<"Payback <= 12 mes">>), JStr(<<"LTV/CAC > 3">>)>>),
              sources |-> JList([i \in 1..Len(srcs) |->
                             JObj([url |-> JStr(srcs[i].url), title |-> JStr(srcs[i].title),
                                   date |-> JStr(srcs[i].date)])]),
              evidence |-> JList([i \in 1..Len(srcs) |->
                             JStr(domain_of(srcs[i].url) \o <<":", " ">> \o srcs[i].title)])])

\* the first half of run: _search and _evidence_ok.  The domain of the
\* query is any JSON value; _expand_kws calls .lower() on a truthy one
rs_search(rows, q) ==
    LET d == Get(q, "domain", JStr(<<>>))
    IN  IF Truthy(d) /\ ~IsStr(d) THEN {Raised("AttributeError")}
        ELSE { [exc |-> "", v |-> its] :
                 its \in search(rows, IF Truthy(d) THEN d.s ELSE <<>>, EVIDENCE_WINDOW_DAYS) }

\* a mistaken second half that hands a raised chat error to the fallback
RsSynthCatching(q, its, out) ==
    IF out.k \in {"raise", "nochoices", "nullcontent"}
    THEN Returned(Dumps(local_fallback(q, its)))
    ELSE LET obj == json_or_repair(out.content)
         IN  Returned(Dumps(IF Truthy(obj) THEN obj ELSE local_fallback(q, its)))

\* the second half of run, once the gate has passed, given what chat came
\* to: raw = fin["choices"][0]["message"].get("content", ""), then
\* _json_or_repair(raw) or _local_fallback(uq, items)
rs_synth(q, its, out) ==
    CASE out.k = "raise" -> Raised("RequestException")
      [] out.k = "nochoices" -> Raised("KeyError")
      [] out.k = "nullcontent" -> Raised("TypeError")
      [] out.k = "reply" ->
            LET obj == json_or_repair(out.content)
            IN  Returned(Dumps(IF Truthy(obj) THEN obj ELSE local_fallback(q, its)))

(***************************************************************************)
(* ValidatorOutAgent                                                       *)
(***************************************************************************)
KEYS == <<"idea", "local_niches", "90_day_plan", "risks", "unit_economics_notes",
          "sources", "evidence">>

\* a mistaken _as_list that wraps a list as it wraps a scalar
AsListAlwaysWrap(v) == IF IsNone(v) THEN <<>> ELSE <<v>>

\* ValidatorOutAgent._as_list
as_list(v) == IF IsNone(v) THEN <<>> ELSE IF IsList(v) THEN v.xs ELSE <<v>>

\* str(v).strip()
StripStr(v) == Strip(PyStr(v))

\* [f(x) for x in xs]
Map(xs, F(_)) == [i \in 1..Len(xs) |-> F(xs[i])]

\* int(v): the number, or the exception int raises
IntOf(v) ==
    CASE v.t = "num" -> [exc |-> "", n |-> v.n]
      [] v.t = "bool" -> [exc |-> "", n |-> IF v.b THEN 1 ELSE 0]
      [] v.t = "str" ->
            LET z == Strip(v.s)
                signed == z # <<>> /\ Head(z) \in {"-", "+"}
                body == IF signed THEN Tail(z) ELSE z
            IN  IF body # <<>> /\ \A i \in 1..Len(body) : IsDigit(body[i])
                THEN [exc |-> "",
                      n |-> IF signed /\ Head(z) = "-" THEN 0 - DigitsValue(body)
                            ELSE DigitsValue(body)]
                ELSE [exc |-> "ValueError", n |-> 0]
      [] OTHER -> [exc |-> "TypeError", n |-> 0]

\* for k in KEYS: obj.setdefault(k, [] if k != "idea" else "")
RECURSIVE WithDefaults(_, _)
WithDefaults(o, i) ==
    IF i > Len(KEYS) THEN o
    ELSE WithDefaults(SetDefault(o, KEYS[i],
                                 IF KEYS[i] = "idea" THEN JStr(<<>>) ELSE JList(<<>>)),
                      i + 1)

\* local_niches -> list of {name, why_now}
NicheOf(item) ==
    IF IsObj(item)
    THEN [name |-> StripStr(Get(item, "name", Get(item, "title", JStr(<<>>)))),
          why_now |-> StripStr(Get(item, "why_now", JStr(<<>>)))]
    ELSE [name |-> StripStr(item), why_now |-> <<>>]

\* a mistaken coercion that keeps the entries that have no name
CoerceNichesKeepAll(v) ==
    JList(Map(Map(as_list(v), NicheOf),
              LAMBDA n : JObj([name |-> JStr(n.name), why_now |-> JStr(n.why_now)])))

CoerceNiches(v) ==
    LET kept == SelectSeq(Map(as_list(v), NicheOf), LAMBDA n : n.name # <<>>)
    IN  JList(Map(kept, LAMBDA n : JObj([name |-> JStr(n.name),
                                         why_now |-> JStr(n.why_now)])))

\* the non-empty stripped strings of a list
StrippedNonEmpty(v) ==
    SelectSeq(Map(as_list(v), StripStr), LAMBDA x : x # <<>>)

\* 90_day_plan -> list of {week, tasks}; int(p.get("week", idx)) may raise
PlanWeek(p, idx) == IntOf(Get(p, "week", JNum(idx)))

PlanExc(v) ==
    LET xs == as_list(v)
        bad == {i \in 1..Len(xs) : IsObj(xs[i]) /\ PlanWeek(xs[i], i).exc # ""}
    IN  IF bad = {} THEN ""
        ELSE PlanWeek(xs[CHOOSE i \in bad : \A j \in bad : i <= j],
                      CHOOSE i \in bad : \A j \in bad : i <= j).exc

PlanOf(p, idx) ==
    IF IsObj(p)
    THEN [week |-> PlanWeek(p, idx).n, tasks |-> StrippedNonEmpty(Get(p, "tasks", JNone))]
    ELSE [week |-> idx,
          tasks |-> IF StripStr(p) # <<>> THEN <<StripStr(p)>> ELSE <<>>]

CoercePlan(v) ==
    LET xs == as_list(v)
        all == [i \in 1..Len(xs) |-> PlanOf(xs[i], i)]
        kept == SelectSeq(all, LAMBDA w : w.tasks # <<>>)
    IN  JList(Map(kept, LAMBDA w : JObj([week |-> JNum(w.week),
                                         tasks |-> JList(Map(w.tasks, JStr))])))

\* risks -> list of {risk, mitigation}
RiskOf(r) ==
    IF IsObj(r)
    THEN [risk |-> StripStr(Get(r, "risk", JStr(<<>>))),
          mitigation |-> StripStr(Get(r, "mitigation", JStr(<<>>)))]
    ELSE [risk |-> StripStr(r), mitigation |-> <<>>]

CoerceRisks(v) ==
    LET kept == SelectSeq(Map(as_list(v), RiskOf), LAMBDA r : r.risk # <<>>)
    IN  JList(Map(kept, LAMBDA r : JObj([risk |-> JStr(r.risk),
                                         mitigation |-> JStr(r.mitigation)])))

\* a mistaken _source that keeps whatever date it is given
SourceKeepingDate(x) ==
    IF IsObj(x)
    THEN JObj([url |-> JStr(StripStr(Get(x, "url", JStr(<<>>)))),
               title |-> JStr(StripStr(Get(x, "title", JStr(<<>>)))),
               date |-> JStr(StripStr(Get(x, "date", JStr(<<>>))))])
    ELSE JObj([url |-> JStr(<<>>), title |-> JStr(StripStr(x)), date |-> JStr(<<>>)])

\* ValidatorOutAgent.run._source
Source(x) ==
    LET url == IF IsObj(x) THEN StripStr(Get(x, "url", JStr(<<>>)))
               ELSE IF StartsWith(StripStr(x), <<"h", "t", "t", "p">>) THEN StripStr(x)
               ELSE <<>>
        title == IF IsObj(x) THEN StripStr(Get(x, "title", JStr(<<>>)))
                 ELSE IF url # <<>> THEN <<>> ELSE StripStr(x)
        dt == IF IsObj(x) THEN StripStr(Get(x, "date", JStr(<<>>))) ELSE <<>>
    IN  JObj([url |-> JStr(url), title |-> JStr(title),
              date |-> JStr(IF dt = <<>> \/ ~MatchesDate(dt) THEN iso_date(Today) ELSE dt)])

CoerceSources(v) ==
    JList(Map(SelectSeq(as_list(v), LAMBDA x : ~IsNone(x)), Source))

\* the field coercions of run, applied to a dict that has every key
Coerce(o) ==
    LET o1 == Put(o, "idea", JStr(PyStr(o.kv["idea"])))
        o2 == Put(o1, "local_niches", CoerceNiches(o.kv["local_niches"]))
        o3 == Put(o2, "90_day_plan", CoercePlan(o.kv["90_day_plan"]))
        o4 == Put(o3, "risks", CoerceRisks(o.kv["risks"]))
        o5 == Put(o4, "unit_economics_notes",
                  JList(Map(StrippedNonEmpty(o.kv["unit_economics_notes"]), JStr)))
        o6 == Put(o5, "sources", CoerceSources(o.kv["sources"]))
    IN  Put(o6, "evidence", JList(Map(StrippedNonEmpty(o.kv["evidence"]), JStr)))

\* a mistaken run that takes any parsed value that is no dict for {}
VoutRunGuarded(text) ==
    LET parsed == Loads(text)
        obj == IF parsed.ok /\ IsObj(parsed.v) THEN WithDefaults(parsed.v, 1)
               ELSE WithDefaults(JObj(<<>>), 1)
    IN  IF PlanExc(obj.kv["90_day_plan"]) # "" THEN Returned(Dumps(WithDefaults(JObj(<<>>), 1)))
        ELSE Returned(Dumps(Coerce(obj)))

\* a mistaken run that returns the parsed dict without its defaults
VoutRunNoDefaults(text) ==
    LET parsed == Loads(text)
    IN  IF parsed.ok /\ ~IsObj(parsed.v) THEN Raised("AttributeError")
        ELSE Returned(Dumps(IF parsed.ok THEN parsed.v ELSE JObj(<<>>)))

\* ValidatorOutAgent.run
vout_run(text) ==
    LET parsed == Loads(text)
        obj == IF parsed.ok THEN parsed.v ELSE JObj(<<>>)
    IN  IF ~IsObj(obj) THEN Raised("AttributeError")
        ELSE LET full == WithDefaults(obj, 1)
             IN  IF PlanExc(full.kv["90_day_plan"]) # ""
                 THEN Raised(PlanExc(full.kv["90_day_plan"]))
                 ELSE Returned(Dumps(Coerce(full)))

(***************************************************************************)
(* Specifications of the store: ingestion alone, and ingestion together    *)
(* with direct upserts                                                     *)
(***************************************************************************)
QueryIdle ==
    /\ pc = "idle" /\ userText = <<>> /\ uq = JNone /\ items = <<>>
    /\ gate = "none" /\ raw = JNone /\ answer = JNone /\ exc = ""
    /\ intakeCalls = 0 /\ synthCalls = 0 /\ gen = "none" /\ reply = GenNone
    /\ elapsed = 0

RecentIdle == kwIn = <<>> /\ daysIn = 0 /\ rowsOut = JNone
MoreIdle == ing = <<>> /\ fbIn = JNone /\ fbOut = JNone
PureIdle ==
    evIn = <<>> /\ evOut = JNone /\ repIn = JNone /\ repOut = JNone /\ RecentIdle
    /\ MoreIdle

InitStore ==
    /\ docs = {} /\ log = <<>> /\ last = NoOp /\ prev = NoOp
    /\ envRelax = EnvUnset /\ relax = DemoEvidenceRelax(envRelax) /\ hasKey = FALSE
    /\ QueryIdle /\ PureIdle

NextStore ==
    \/ \E u \in IngestUrls, p \in Pages :
          FetchAndStore(u, p) /\ UNCHANGED <<cfgVars, queryVars, pureVars>>
    \/ \E u \in IngestUrls :
          FetchRaises(u) /\ UNCHANGED <<cfgVars, queryVars, pureVars>>

SpecStore == InitStore /\ [][NextStore]_vars

NextDao ==
    \/ NextStore
    \/ \E d \in DirectDocs :
          UpsertDirect(d) /\ UNCHANGED <<cfgVars, queryVars, pureVars>>

SpecDao == InitStore /\ [][NextDao]_vars

\* the dedup key of a (url, title) pair: both trimmed
DedupKey(url, title) == <<Strip(url), Strip(title)>>

Ingested(o) == o.op = "fetch_and_store" /\ o.ret \in {"True", "False"}

\* the last two store operations ingested the same (url, title) pair
SamePairTwice ==
    /\ Ingested(prev) /\ Ingested(last)
    /\ last.doc.url = prev.doc.url /\ last.doc.title = prev.doc.title

\* the last two store operations ingested one url under two titles
SameUrlTwoTitles ==
    /\ prev.op = "fetch_and_store" /\ prev.ret = "True" /\ Ingested(last)
    /\ last.doc.url = prev.doc.url /\ last.doc.title # prev.doc.title

\* C1: when the same (url, title) pair is ingested twice, the second
\* ingestion finds exists_ud true, returns False, changes neither the table
\* nor the log, and exactly one stored document carries the pair's dedup key.
C1_SecondIngestSkipped ==
    [][ (last'.seq = last.seq + 1 /\ SamePairTwice')
        => /\ exists_ud(docs, last'.doc.url, last'.doc.title)
           /\ last'.ret = "False"
           /\ docs' = docs
           /\ log' = log
           /\ Cardinality({r \in docs' :
                 DedupKey(r.url, r.title) = DedupKey(last'.doc.url, last'.doc.title)}) = 1
      ]_vars

C1_Witness == SamePairTwice /\ prev.ret = "True" /\ last.ret = "False" /\ Len(log) = 1

C3_DedupKeyUnique ==
    \A r1, r2 \in docs :
        DedupKey(r1.url, r1.title) = DedupKey(r2.url, r2.title) => r1 = r2

\* the url of the last ingestion was already stored when it ran
ReingestedStoredUrl ==
    /\ Ingested(last') /\ last'.seq = last.seq + 1
    /\ \E r \in docs : r.id = last'.doc.id

\* C4 as stated: re-ingesting a stored url leaves the stored document equal
\* to the newly produced one, also when only the body text changed.
C4_ReingestAlwaysUpdates ==
    [][ ReingestedStoredUrl => RowOf(last'.doc) \in docs' ]_vars

\* C4, amended: re-ingesting a stored url updates the row in place exactly
\* when the dedup check lets it through (the new title's key is not stored);
\* the row then equals the new document and no row is added.  With an
\* unchanged title the ingestion is skipped and the stored row stays as it
\* was, whatever the new body text.
C4_ReingestUpdatesUnlessDuplicate ==
    [][ ReingestedStoredUrl =>
          /\ Cardinality(docs') = Cardinality(docs)
          /\ last'.ret = "True" =>
                /\ ~ exists_ud(docs, last'.doc.url, last'.doc.title)
                /\ \A r \in docs' : r.id = last'.doc.id => r = RowOf(last'.doc)
                /\ \A r \in docs' : r.id # last'.doc.id => r \in docs
          /\ last'.ret = "False" => docs' = docs
          /\ (\E r \in docs : r.id = last'.doc.id /\ r.title = last'.doc.title)
                => (last'.ret = "False" /\ docs' = docs)
      ]_vars

\* a stored url was re-ingested with a new title and a new text, and stored
C4_Witness ==
    /\ prev.op = "fetch_and_store" /\ prev.ret = "True"
    /\ last.op = "fetch_and_store" /\ last.ret = "True"
    /\ last.doc.id = prev.doc.id
    /\ last.doc.text # prev.doc.text
    /\ docs = {RowOf(last.doc)}

(***************************************************************************)
(* The evidence policy on its own: _evidence_ok applied to any item list   *)
(***************************************************************************)
\* longest item list handed to a stand-alone _evidence_ok call
MaxItems == 3

EvItems ==
    { [url |-> u, title |-> <<"K">>, date |-> <<2025, 11, 10>>, text |-> T_cafe] :
      u \in {U_a1, U_a1pad, U_b1, U_ftp} }

EvLists == UNION { [1..n -> EvItems] : n \in 0..MaxItems }

InitEvidence ==
    /\ docs = {} /\ log = <<>> /\ last = NoOp /\ prev = NoOp
    /\ envRelax \in EnvValues /\ relax = DemoEvidenceRelax(envRelax) /\ hasKey = FALSE
    /\ QueryIdle
    /\ evIn \in EvLists /\ evOut = JNone /\ repIn = JNone /\ repOut = JNone
    /\ RecentIdle /\ MoreIdle

\* a call of _evidence_ok(evIn)
EvidenceOk ==
    /\ evOut = JNone
    /\ evOut' = evidence_ok(evIn, relax)
    /\ UNCHANGED <<storeVars, cfgVars, queryVars, evIn, repIn, repOut, kwIn, daysIn, rowsOut,
                   moreVars>>

NextEvidence == EvidenceOk

SpecEvidence == InitEvidence /\ [][NextEvidence]_vars

\* C10: in standard mode _evidence_ok answers true exactly when two of the
\* items have different source domains (so an empty list and any number of
\* items of one domain are insufficient), it reports each domain once, and
\* the call leaves the store as it was.
C10_TwoDistinctDomains ==
    (evOut # JNone /\ ~relax) =>
        /\ evOut.ok <=> (\E i, j \in 1..Len(evIn) :
                            domain_of(evIn[i].url) # domain_of(evIn[j].url))
        /\ evIn = <<>> => ~evOut.ok
        /\ (\A i \in 1..Len(evIn) : Strip(evIn[i].url) = U_a1) => ~evOut.ok
        /\ \A i \in 1..Len(evIn) : domain_of(evIn[i].url) \in evOut.uniq
        /\ docs = {} /\ log = <<>>

\* three items of two domains, one of them twice, were judged sufficient
C10_Witness ==
    /\ evOut # JNone /\ ~relax /\ evOut.ok
    /\ Len(evIn) = 3 /\ Cardinality(evOut.uniq) = 2

\* C11: the relaxed mode is on only when the environment sets
\* DEMO_EVIDENCE_RELAX to "1" (unset, it is off); when it is on, _evidence_ok
\* answers true exactly when there are at least two items, whatever their
\* domains; when it is off, two items of one domain are never sufficient.
C11_RelaxedModeExplicit ==
    /\ relax <=> envRelax = EnvSet(<<"1">>)
    /\ envRelax = EnvUnset => ~relax
    /\ (evOut # JNone /\ relax) => (evOut.ok <=> Len(evIn) >= 2)
    /\ (evOut # JNone /\ ~relax /\ Len(evIn) = 2
          /\ domain_of(evIn[1].url) = domain_of(evIn[2].url)) => ~evOut.ok

\* in relaxed mode two items of one domain were judged sufficient
C11_Witness ==
    /\ evOut # JNone /\ relax /\ evOut.ok
    /\ Len(evIn) = 2 /\ Cardinality(evOut.uniq) = 1


(***************************************************************************)
(* Orchestrator.run_query, one step per agent call and Generator call      *)
(***************************************************************************)
T_general == S_general

Pg(title, text, date) == [title |-> title, text |-> text, date |-> date]
In(url, page) == [url |-> url, page |-> page]

\* ingestion runs that build the corpora a query is asked against: none,
\* one document, two of one domain, two domains with one outside the
\* window, two domains inside it, two domains that mention "general", and
\* three documents of two domains
CorpusRuns ==
    { <<>>,
      <<In(U_a1, Pg(<<"K">>, T_cafe, D_recent))>>,
      <<In(U_a1, Pg(<<"K">>, T_cafe, D_recent)),
        In(U_a1pad, Pg(<<"L", " ">>, T_cafe, D_recent))>>,
      <<In(U_a1, Pg(<<"K">>, T_cafe, D_recent)),
        In(U_b1, Pg(<<"L", " ">>, T_cafe, D_old))>>,
      <<In(U_a1, Pg(<<"K">>, T_cafe, D_recent)),
        In(U_b1, Pg(<<>>, T_cafe, <<>>))>>,
      <<In(U_a1, Pg(<<"K">>, T_general, D_recent)),
        In(U_b1, Pg(<<"L", " ">>, T_general, D_invalid))>>,
      <<In(U_a1, Pg(<<"K">>, T_cafe, D_recent)),
        In(U_a1pad, Pg(<<"L", " ">>, T_cafe, D_stamped)),
        In(U_b1, Pg(<<"K">>, T_oil, D_recent))>> }

\* the table after the ingestions of a run, from an empty table
RECURSIVE StoreOf(_)
StoreOf(run) ==
    IF run = <<>> THEN {}
    ELSE StoreAfterFetch(StoreOf(SubSeq(run, 1, Len(run) - 1)),
                         run[Len(run)].url, run[Len(run)].page)

\* the third names two keys of KEYWORDS, one of them in capitals
UserTexts ==
    { <<" ", "c", "a", "f", "e">>, <<"O", "i", "l">>,
      <<"H", "o", "R", "e", "C", "a", "-", "CYR_K">> \o Tail(W_kofeynya) }

GoodQuery ==
    JObj([domain |-> JStr(W_cafe), location |-> JStr(S_location), details |-> JStr(<<>>)])

GoodAnswer ==
    JObj([idea |-> JStr(<<"i">>),
          local_niches |-> JList(<<JObj([name |-> JStr(<<"n">>), why_now |-> JStr(<<"w">>)])>>),
          90_day_plan |-> JList(<<JObj([week |-> JNum(1), tasks |-> JList(<<JStr(<<"t">>)>>)])>>),
          risks |-> JList(<<JObj([risk |-> JStr(<<"r">>), mitigation |-> JStr(<<"m">>)])>>),
          unit_economics_notes |-> JList(<<JStr(<<"C", "A", "C">>)>>),
          sources |-> JList(<<JObj([url |-> JStr(U_a1), title |-> JStr(<<"K">>),
                                    date |-> JStr(iso_date(<<2025, 11, 10>>))])>>),
          evidence |-> JList(<<JStr(<<"e">>)>>)])

\* texts the Generator may reply to the intake prompt
IntakeReplies ==
    { TJson(GoodQuery),
      TJson(JObj([domain |-> JStr(<<>>)])),
      TJson(JObj([domain |-> JNone])),
      TJson(JObj([domain |-> JNum(5)])),
      TJson(JList(<<JNum(1)>>)),
      TWrapped(GoodQuery),
      TPlain(<<"n", "o", "t", " ", "j", "s", "o", "n">>),
      S_stub }

\* texts the Generator may reply to the synthesis prompt
SynthReplies ==
    { TJson(GoodAnswer),
      TJson(JObj([idea |-> JNum(3), local_niches |-> JStr(<<"n">>)])),
      TJson(JObj([90_day_plan |-> JList(<<JObj([week |-> JStr(<<"x">>)])>>)])),
      TJson(JObj(<<>>)),
      TJson(JList(<<>>)),
      TJson(JList(<<JNum(1)>>)),
      TJson(JNum(7)),
      TJson(JNone),
      TWrapped(GoodAnswer),
      TPlain(<<>>),
      TPlain(<<"{", "b", "r", "o", "k", "e", "n">>),
      S_stub }

Init ==
    /\ \E run \in CorpusRuns : docs = StoreOf(run)
    /\ log = <<>> /\ last = NoOp /\ prev = NoOp
    /\ envRelax \in {EnvUnset, EnvSet(<<"1">>)} /\ relax = DemoEvidenceRelax(envRelax)
    /\ hasKey \in BOOLEAN
    /\ QueryIdle /\ PureIdle

\* a mistaken gate that goes on to the Generator whatever the verdict
AfterGateAlwaysSynth(ok) == "synth"

\* if not ok: return the refusal; otherwise go on to the Generator
AfterGate(ok) == IF ok THEN "synth" ELSE "repair"

\* run_query(text) is called
Call(text) ==
    /\ pc = "idle"
    /\ pc' = "intake"
    /\ userText' = text
    /\ UNCHANGED <<uq, items, gate, raw, answer, exc, intakeCalls, synthCalls, gen, reply,
                   elapsed>>

\* uq = self.intake.run(user_text); uq = self.vin.run(uq)
Intake(out, secs) ==
    LET r == intake_run(userText, out)
    IN  /\ pc = "intake"
        /\ intakeCalls' = intakeCalls + 1
        /\ elapsed' = elapsed + secs
        /\ gen' = out.k
        /\ reply' = out
        /\ IF r.exc # ""
           THEN pc' = "raised" /\ exc' = r.exc /\ uq' = uq
           ELSE pc' = "retrieve" /\ exc' = exc /\ uq' = vin_run(r.v)
        /\ UNCHANGED <<userText, items, gate, raw, answer, synthCalls>>

\* self.rs.run(uq) up to the evidence gate
Retrieve(r) ==
    /\ pc = "retrieve"
    /\ IF r.exc # ""
       THEN /\ pc' = "raised" /\ exc' = r.exc
            /\ UNCHANGED <<items, gate, raw>>
       ELSE LET ok == evidence_ok(r.v, relax).ok
            IN  /\ items' = r.v
                /\ gate' = IF ok THEN "pass" ELSE "fail"
                /\ pc' = AfterGate(ok)
                /\ raw' = IF ok THEN raw ELSE Dumps(Refusal)
                /\ exc' = exc
    /\ UNCHANGED <<userText, uq, answer, intakeCalls, synthCalls, gen, reply, elapsed>>

\* self.rs.run(uq) from the Generator call on
Synth(out, secs) ==
    LET r == rs_synth(uq, items, out)
    IN  /\ pc = "synth"
        /\ synthCalls' = synthCalls + 1
        /\ elapsed' = elapsed + secs
        /\ gen' = out.k
        /\ reply' = out
        /\ IF r.exc # ""
           THEN pc' = "raised" /\ exc' = r.exc /\ raw' = raw
           ELSE pc' = "repair" /\ exc' = exc /\ raw' = r.v
        /\ UNCHANGED <<userText, uq, items, gate, answer, intakeCalls>>

\* return self.vout.run(raw)
Repair ==
    LET r == vout_run(raw)
    IN  /\ pc = "repair"
        /\ IF r.exc # ""
           THEN pc' = "raised" /\ exc' = r.exc /\ answer' = answer
           ELSE pc' = "done" /\ exc' = exc /\ answer' = r.v
        /\ UNCHANGED <<userText, uq, items, gate, raw, intakeCalls, synthCalls, gen, reply,
                       elapsed>>

Next ==
    \/ \E t \in UserTexts : Call(t) /\ UNCHANGED <<storeVars, cfgVars, pureVars>>
    \/ \E out \in chat(hasKey, IntakeReplies), secs \in ChatSeconds(hasKey) :
          Intake(out, secs) /\ UNCHANGED <<storeVars, cfgVars, pureVars>>
    \/ /\ pc = "retrieve"
       /\ \E r \in rs_search(docs, uq) :
             Retrieve(r) /\ UNCHANGED <<storeVars, cfgVars, pureVars>>
    \/ \E out \in chat(hasKey, SynthReplies), secs \in ChatSeconds(hasKey) :
          Synth(out, secs) /\ UNCHANGED <<storeVars, cfgVars, pureVars>>
    \/ Repair /\ UNCHANGED <<storeVars, cfgVars, pureVars>>

Spec == Init /\ [][Next]_vars

\* a text is a well-formed Answer: a JSON object with the seven required
\* keys, idea a string and the other six lists
WellFormedAnswer(text) ==
    /\ text.k = "json"
    /\ IsObj(text.v)
    /\ \A i \in 1..Len(KEYS) : KEYS[i] \in DOMAIN text.v.kv
    /\ IsStr(text.v.kv["idea"])
    /\ \A i \in 2..Len(KEYS) : IsList(text.v.kv[KEYS[i]])

\* C5: in standard mode, whenever the retrieved items span fewer than two
\* source domains, run returns the refusal payload: idea "", five empty
\* lists, and evidence holding the advisory string alone, whatever the
\* query and the corpus.
C5_RefusalExact ==
    (~relax /\ gate # "none" /\ Cardinality(UniqDomains(items)) < 2) =>
        raw = [k |-> "json",
               v |-> [t |-> "obj",
                      kv |-> [idea |-> [t |-> "str", s |-> <<>>],
                              local_niches |-> [t |-> "list", xs |-> <<>>],
                              90_day_plan |-> [t |-> "list", xs |-> <<>>],
                              risks |-> [t |-> "list", xs |-> <<>>],
                              unit_economics_notes |-> [t |-> "list", xs |-> <<>>],
                              sources |-> [t |-> "list", xs |-> <<>>],
                              evidence |-> [t |-> "list",
                                            xs |-> <<[t |-> "str", s |-> S_advisory]>>]]]]

\* two documents of one domain were retrieved and the query was refused
C5_Witness ==
    /\ ~relax /\ gate = "fail" /\ Len(items) = 2 /\ pc = "done"
    /\ uq.kv["domain"] = JStr(W_cafe)

\* C6: the synthesis Generator call is made only from the state in which
\* the gate has passed, at most once; it has not been made while the gate
\* has failed or is undecided, and it has been made exactly once whenever
\* run has gone past it, whether the call raised or replied anything.
C6_GeneratorOnceAfterGate ==
    /\ [](gate # "pass" => synthCalls = 0)
    /\ [](gate = "pass" => synthCalls = (IF pc = "synth" THEN 0 ELSE 1))
    /\ [][synthCalls' # synthCalls =>
             /\ pc = "synth" /\ gate = "pass" /\ gate' = "pass"
             /\ synthCalls = 0 /\ synthCalls' = 1]_vars

\* the gate passed, the Generator replied no JSON, and run returned
C6_Witness ==
    /\ gate = "pass" /\ synthCalls = 1 /\ pc = "done" /\ gen = "reply"
    /\ raw = Dumps(local_fallback(uq, items))

\* C8 as stated: no behaviour of the Generator makes run_query raise, and
\* what run_query returns is a well-formed Answer.
C8_QueryNeverRaises ==
    /\ pc # "raised"
    /\ pc = "done" => WellFormedAnswer(answer)

\* C9 as stated: when the gate has passed and the Generator is unavailable
\* or its call raised, run has returned the local fallback answer.
C9_FallbackOnGeneratorFailure ==
    (gate = "pass" /\ synthCalls = 1 /\ (~hasKey \/ gen = "raise")) =>
        /\ exc = ""
        /\ raw = Dumps(local_fallback(uq, items))

(***************************************************************************)
(* Output repair on its own: ValidatorOutAgent.run applied to any text     *)
(***************************************************************************)
Absent == [t |-> "absent"]
Field(k, v) == IF v = Absent THEN <<>> ELSE (k :> v)

RepairInputs ==
    LET
        RepairIdeas == {Absent, JStr(<<"i">>), JNum(3)}
        RepairNiches ==
            { Absent, JNone, JStr(<<"n">>),
              JList(<<JObj([name |-> JStr(<<"n">>), why_now |-> JStr(<<"w">>)]),
                      JObj([why_now |-> JStr(<<"w">>)])>>) }
        RepairPlans ==
            { Absent,
              JList(<<JObj([week |-> JNum(2), tasks |-> JList(<<JStr(<<"t">>)>>)]),
                      JObj([week |-> JNum(3)])>>),
              JList(<<JObj([week |-> JStr(<<"2">>), tasks |-> JStr(<<"t">>)]), JStr(<<"p">>)>>),
              JList(<<JObj([week |-> JStr(<<"x">>), tasks |-> JList(<<JStr(<<"t">>)>>)])>>),
              JList(<<JObj([week |-> JNone, tasks |-> JList(<<JStr(<<"t">>)>>)])>>) }
        RepairRisks ==
            { Absent, JStr(<<"r">>),
              JList(<<JObj([risk |-> JStr(<<"r">>)]), JObj([mitigation |-> JStr(<<"m">>)])>>) }
        RepairSources ==
            { Absent, JStr(U_a1),
              JList(<<JObj([url |-> JStr(U_a1), title |-> JStr(<<"K">>),
                            date |-> JStr(iso_date(<<2025, 11, 10>>))]),
                      JObj([url |-> JStr(U_b1), date |-> JStr(<<"1", "0", ".", "1", "1">>)]),
                      JNone, JStr(<<"s">>),
                      JObj([date |-> JStr(<<" ">> \o iso_date(<<2025, 11, 9>>))]),
                      JObj([date |-> JNum(20251110)])>>) }
        RepairEvidence == {Absent, JList(<<JStr(<<" ">>), JNum(1)>>)}
    IN
        { TJson(JObj(Field("idea", a) @@ Field("local_niches", b) @@ Field("90_day_plan", c)
                     @@ Field("risks", d) @@ Field("sources", e) @@ Field("evidence", f))) :
            a \in RepairIdeas, b \in RepairNiches, c \in RepairPlans, d \in RepairRisks,
            e \in RepairSources, f \in RepairEvidence }
        \cup { TJson(JList(<<JNum(1)>>)), TJson(JNum(0)), TJson(JNone), TJson(JStr(<<"s">>)),
               TJson(JBool(TRUE)), TWrapped(GoodAnswer), S_stub, TPlain(<<>>),
               TPlain(<<"n", "o", "t", " ", "j", "s", "o", "n">>),
               TPlain(<<"{", "b", "r", "o", "k", "e", "n">>) }

InitRepair ==
    /\ docs = {} /\ log = <<>> /\ last = NoOp /\ prev = NoOp
    /\ envRelax = EnvUnset /\ relax = DemoEvidenceRelax(envRelax) /\ hasKey = FALSE
    /\ QueryIdle
    /\ evIn = <<>> /\ evOut = JNone /\ repIn \in RepairInputs /\ repOut = JNone
    /\ RecentIdle /\ MoreIdle

\* a call of ValidatorOutAgent.run(repIn)
RepairRun ==
    /\ repOut = JNone
    /\ repOut' = vout_run(repIn)
    /\ UNCHANGED <<storeVars, cfgVars, queryVars, evIn, evOut, repIn, kwIn, daysIn, rowsOut,
                   moreVars>>

NextRepair == RepairRun

SpecRepair == InitRepair /\ [][NextRepair]_vars

\* C7 as stated: for every input text, run returns, without raising, a JSON
\* object with the seven required keys, idea a string and the rest lists.
C7_RepairTotal ==
    repOut # JNone => (repOut.exc = "" /\ WellFormedAnswer(repOut.v))

(***************************************************************************)
(* SQLiteDAO.recent_docs_keywords on its own                               *)
(***************************************************************************)
ExtraRows == 2

\* a stored row for a url, title, text and published date
StoredRow(url, title, text, d) ==
    RowOf([id |-> Md5(url), url |-> url, domain |-> domain_of(url), lang |-> "ru",
           published_at |-> d, title |-> title, tags |-> <<>>, summary |-> <<>>,
           text |-> text])

\* rows ten days old, on the first day of the 90-day window, one day before
\* it, and dated ahead of today; Latin and Cyrillic words in both cases
RecentRows ==
    { StoredRow(U_a1, <<"C", "a", "f", "e">>, T_oil, <<2025, 11, 10>>),
      StoredRow(U_b1, <<"K">>, <<"CYR_K", "CYR_O", "CYR_F", "CYR_E">>, <<2025, 11, 10>>),
      StoredRow(<<"h", "t", "t", "p", ":", "/", "/", "a", "/", "2">>, W_kofe, T_oil,
                <<2025, 8, 22>>),
      StoredRow(<<"h", "t", "t", "p", ":", "/", "/", "b", "/", "2">>, W_cafe, T_oil,
                <<2025, 8, 21>>),
      StoredRow(<<"h", "t", "t", "p", ":", "/", "/", "a", "/", "3">>, <<"f", "&", "b">>,
                T_oil, <<2025, 12, 1>>),
      StoredRow(<<"h", "t", "t", "p", ":", "/", "/", "b", "/", "3">>, <<"K">>, T_oil,
                <<2025, 11, 10>>) }

RecentKeywords ==
    { <<>>, <<W_cafe>>, <<W_kofe>>, <<<<"C", "A", "F", "E">>>>, <<<<"f", "_", "b">>>>,
      <<W_cafe, W_kofe>> }

\* n rows: n - 1 published on the n - 1 days up to today, one a day, every
\* other one about cafes, and one more sharing the day of the row that is
\* RowLimit-th from today
ManyRows(n) ==
    LET days == { d \in (2024..2025) \X (1..12) \X (1..31) :
                    /\ d[3] <= DaysInMonth(d[1], d[2])
                    /\ Ordinal(Today) - Ordinal(d) \in 0..(n - 2) }
        shared == CHOOSE d \in days :
                    Ordinal(Today) - Ordinal(d) =
                        (IF n - 2 < RowLimit - 1 THEN n - 2 ELSE RowLimit - 1)
    IN  { StoredRow(<<"h", "t", "t", "p", ":", "/", "/", "a", "/">> \o iso_date(d),
                    IF Ordinal(d) % 2 = 0 THEN W_cafe ELSE T_oil, T_oil, d) : d \in days }
        \cup { StoredRow(U_b1, W_cafe, T_oil, shared) }

ManyWindow == 600

InitRecent ==
    /\ log = <<>> /\ last = NoOp /\ prev = NoOp
    /\ envRelax = EnvUnset /\ relax = DemoEvidenceRelax(envRelax) /\ hasKey = FALSE
    /\ QueryIdle
    /\ evIn = <<>> /\ evOut = JNone /\ repIn = JNone /\ repOut = JNone
    /\ rowsOut = JNone /\ MoreIdle
    /\ \/ /\ docs \in SUBSET RecentRows
          /\ kwIn \in RecentKeywords
          /\ daysIn \in {EVIDENCE_WINDOW_DAYS, 0}
       \/ /\ docs \in {ManyRows(n) : n \in (RowLimit - 1)..(RowLimit + ExtraRows)}
          /\ kwIn \in {<<>>, <<W_cafe>>}
          /\ daysIn \in {EVIDENCE_WINDOW_DAYS, ManyWindow}

\* a call of recent_docs_keywords(kwIn, days=daysIn)
RecentDocs ==
    /\ rowsOut = JNone
    /\ \E q \in recent_docs_keywords(docs, kwIn, daysIn) : rowsOut' = [rows |-> q]
    /\ UNCHANGED <<storeVars, cfgVars, queryVars, evIn, evOut, repIn, repOut, kwIn, daysIn,
                   moreVars>>

NextRecent == RecentDocs

SpecRecent == InitRecent /\ [][NextRecent]_vars

\* C12 as stated: below the cap, the documents returned are exactly those
\* published on or after today minus the window whose title or text holds
\* one of the keywords, letter case ignored (every document of the window
\* when there are no keywords).
C12_ExactlyMatchingDocs ==
    (rowsOut # JNone /\ Cardinality(docs) <= 500) =>
        { rowsOut.rows[i] : i \in 1..Len(rowsOut.rows) } =
            { r \in docs :
                /\ Ordinal(r.published_at) >= Ordinal(Today) - daysIn
                /\ \/ kwIn = <<>>
                   \/ \E k \in 1..Len(kwIn) :
                         \/ Contains(Lower(r.title), Lower(kwIn[k]))
                         \/ Contains(Lower(r.text), Lower(kwIn[k])) }

\* C13: the rows returned are in descending order of published_at and at
\* most 500; they are min(500, number of qualifying rows) distinct
\* qualifying rows, no qualifying row left out is more recent than one
\* returned, and the call leaves the store and the log as they were.
C13_OrderedAndCapped ==
    /\ [](rowsOut # JNone =>
            LET q == rowsOut.rows
                Q == {r \in docs : Qualifies(r, kwIn, daysIn)}
            IN  /\ Len(q) <= 500
                /\ Len(q) = (IF Cardinality(Q) > 500 THEN 500 ELSE Cardinality(Q))
                /\ \A i \in 1..(Len(q) - 1) :
                      Ordinal(q[i].published_at) >= Ordinal(q[i + 1].published_at)
                /\ \A i \in 1..Len(q) : q[i] \in Q
                /\ Cardinality({q[i] : i \in 1..Len(q)}) = Len(q)
                /\ \A r \in Q : (\A i \in 1..Len(q) : q[i] # r) =>
                      (Len(q) = 500 /\
                       Ordinal(r.published_at) <= Ordinal(q[500].published_at)))
    /\ [][rowsOut' # rowsOut => (docs' = docs /\ log' = log)]_vars

\* 502 rows qualified and the 500 most recent were returned
C13_Witness ==
    /\ rowsOut # JNone /\ Len(rowsOut.rows) = 500
    /\ Cardinality({r \in docs : Qualifies(r, kwIn, daysIn)}) = 502

\* C14: with an empty corpus the evidence gate never passes and the
\* Generator is never asked to synthesize; what run_query returns is the
\* refusal payload (idea "", five empty lists, evidence the advisory string
\* alone), exactly as RetrievalSynthesisAgent.run produced it: output repair
\* maps the refusal payload to itself.
C14_EmptyCorpusRefusal ==
    LET refusal ==
            TJson(JObj([idea |-> JStr(<<>>),
                        local_niches |-> JList(<<>>),
                        90_day_plan |-> JList(<<>>),
                        risks |-> JList(<<>>),
                        unit_economics_notes |-> JList(<<>>),
                        sources |-> JList(<<>>),
                        evidence |-> JList(<<JStr(S_advisory)>>)]))
    IN  /\ vout_run(refusal) = [exc |-> "", v |-> refusal]
        /\ docs = {} =>
              /\ gate # "pass" /\ synthCalls = 0
              /\ gate = "fail" => (items = <<>> /\ raw = refusal)
              /\ pc = "done" => (answer = refusal /\ answer = raw)

\* in relaxed mode a query against the empty corpus came back refused
C14_Witness ==
    /\ docs = {} /\ pc = "done" /\ relax /\ gate = "fail"
    /\ answer = Dumps(Refusal)

\* C15 as stated: when the two documents retrieved for the query come from
\* two different domains, the gate has passed, the Generator has been
\* invoked once, and the sources of the repaired Answer are not empty and
\* come from both domains.
C15_TwoDomainAnswerHasSources ==
    (/\ pc = "done"
     /\ Len(items) = 2
     /\ domain_of(items[1].url) # domain_of(items[2].url)) =>
        /\ gate = "pass" /\ synthCalls = 1
        /\ LET srcs == answer.v.kv["sources"].xs
           IN  /\ srcs # <<>>
               /\ \A i \in 1..2 : \E j \in 1..Len(srcs) :
                     domain_of(srcs[j].kv["url"].s) = domain_of(items[i].url)

\* C16 as stated: once the Generator has replied a text to the synthesis
\* prompt, run returns the parsed value when it is a dictionary, and the
\* local fallback answer when nothing parses or the parsed value is a list,
\* number, string, boolean or null.
C16_FallbackUnlessDict ==
    (gate = "pass" /\ synthCalls = 1 /\ reply.k = "reply") =>
        LET parsed == json_or_repair(reply.content)
        IN  raw = IF IsObj(parsed) THEN Dumps(parsed)
                  ELSE Dumps(local_fallback(uq, items))

\* C17: every source of a repaired Answer has a date of the form
\* YYYY-MM-DD; each source of the input other than null gives one source of
\* the output, whose date is the input's date text (as repair reads it,
\* surrounding whitespace stripped) when that has the form, and today's
\* date when it is missing, empty, not a text or of another form.
C17_SourceDatesWellFormed ==
    (repOut # JNone /\ repOut.exc = "") =>
        LET out == repOut.v.v.kv["sources"].xs
            given == IF repIn.k = "json" /\ IsObj(repIn.v) /\ "sources" \in DOMAIN repIn.v.kv
                     THEN as_list(repIn.v.kv["sources"]) ELSE <<>>
            kept == SelectSeq(given, LAMBDA x : ~IsNone(x))
            IsDate(d) ==
                /\ Len(d) = 10
                /\ \A i \in 1..10 :
                      IF i \in {5, 8} THEN d[i] = "-"
                      ELSE d[i] \in {"0", "1", "2", "3", "4", "5", "6", "7", "8", "9"}
            read(x) == IF IsObj(x) /\ "date" \in DOMAIN x.kv /\ IsStr(x.kv["date"])
                       THEN Strip(x.kv["date"].s) ELSE <<>>
        IN  /\ Len(out) = Len(kept)
            /\ \A i \in 1..Len(out) :
                  /\ IsDate(out[i].kv["date"].s)
                  /\ out[i].kv["date"].s =
                        (IF IsDate(read(kept[i])) THEN read(kept[i]) ELSE iso_date(Today))

\* a repaired Answer keeps the well-formed date of one source and gives
\* today's date to the others
C17_Witness ==
    /\ repOut # JNone /\ repOut.exc = ""
    /\ Len(repOut.v.v.kv["sources"].xs) = 5
    /\ repOut.v.v.kv["sources"].xs[1].kv["date"] = JStr(iso_date(<<2025, 11, 10>>))
    /\ repOut.v.v.kv["sources"].xs[2].kv["date"] = JStr(iso_date(Today))

\* C18 as stated: every entry of local_niches, risks and 90_day_plan of the
\* input appears in the output, so each of the three lists keeps its
\* number of entries.
C18_EntriesPreserved ==
    (repOut # JNone /\ repOut.exc = "" /\ repIn.k = "json" /\ IsObj(repIn.v)) =>
        \A f \in {"local_niches", "risks", "90_day_plan"} :
            Len(repOut.v.v.kv[f].xs) = Len(as_list(Get(repIn.v, f, JNone)))

\* C18, amended: an entry is kept, its missing why_now or mitigation
\* defaulted to the empty string, exactly when its principal sub-field is
\* there and not empty: the name (or title) of a niche, the risk of a risk,
\* the tasks of a plan entry; the other entries are dropped, so a list
\* never grows and may shrink.
C18_EntriesKeptWhenNamed ==
    (repOut # JNone /\ repOut.exc = "" /\ repIn.k = "json" /\ IsObj(repIn.v)) =>
        LET in(f) == as_list(Get(repIn.v, f, JNone))
            out(f) == repOut.v.v.kv[f].xs
            count(f, Named(_)) == Cardinality({i \in 1..Len(in(f)) : Named(in(f)[i])})
        IN  /\ \A f \in {"local_niches", "risks", "90_day_plan"} : Len(out(f)) <= Len(in(f))
            /\ Len(out("local_niches")) =
                  count("local_niches", LAMBDA x : NicheOf(x).name # <<>>)
            /\ Len(out("risks")) = count("risks", LAMBDA x : RiskOf(x).risk # <<>>)
            /\ Len(out("90_day_plan")) =
                  count("90_day_plan", LAMBDA x : PlanOf(x, 1).tasks # <<>>)
            /\ \A i \in 1..Len(out("local_niches")) :
                  LET n == out("local_niches")[i]
                  IN  /\ DOMAIN n.kv = {"name", "why_now"}
                      /\ IsStr(n.kv["name"]) /\ n.kv["name"].s # <<>>
                      /\ IsStr(n.kv["why_now"])
            /\ \A i \in 1..Len(out("risks")) :
                  LET r == out("risks")[i]
                  IN  /\ DOMAIN r.kv = {"risk", "mitigation"}
                      /\ IsStr(r.kv["risk"]) /\ r.kv["risk"].s # <<>>
                      /\ IsStr(r.kv["mitigation"])
            /\ \A i \in 1..Len(out("90_day_plan")) :
                  LET w == out("90_day_plan")[i]
                  IN  /\ DOMAIN w.kv = {"week", "tasks"}
                      /\ IsList(w.kv["tasks"]) /\ w.kv["tasks"].xs # <<>>

\* of two niches the one without a name was dropped, and of two risks the
\* one with a risk was kept with an empty mitigation
C18_Witness ==
    /\ repOut # JNone /\ repOut.exc = "" /\ repIn.k = "json" /\ IsObj(repIn.v)
    /\ Len(as_list(Get(repIn.v, "local_niches", JNone))) = 2
    /\ Len(repOut.v.v.kv["local_niches"].xs) = 1
    /\ Len(as_list(Get(repIn.v, "risks", JNone))) = 2
    /\ repOut.v.v.kv["risks"].xs =
          <<JObj([risk |-> JStr(<<"r">>), mitigation |-> JStr(<<>>)])>>


(***************************************************************************)
(* Published dates of ingested documents                                   *)
(***************************************************************************)

\* C19: every document stored through Parser.fetch_and_store has a
\* published_at that is a date of the calendar, written YYYY-MM-DD: the day
\* the page's text starts with when that is one, and the ingestion date when
\* the text is missing or invalid (such as 2024-13-40); the date never makes
\* the ingestion raise.
C19_PublishedAtAlwaysValid ==
    LET stored == {r \in docs : r.id = last.doc.id}
        written == log[Len(log)]
        head == Prefix(last.raw, 10)
        spelled == FromIsoFormat(head).ok
    IN  /\ (last.op = "fetch_and_store" /\ last.raw # <<>>) => last.ret # "raise"
        /\ (last.op = "fetch_and_store" /\ last.ret = "True") =>
              /\ stored # {}
              /\ log # <<>> /\ written = last.doc
              /\ \A r \in stored :
                    /\ ValidDate(r.published_at)
                    /\ MatchesDate(iso_date(r.published_at))
                    /\ spelled => iso_date(r.published_at) = iso_date(FromIsoFormat(head).d)
                    /\ ~spelled => r.published_at = Today
                    /\ last.raw \in {<<>>, D_invalid} => r.published_at = Today
                    /\ last.raw \in {D_recent, D_basic} => iso_date(r.published_at) = D_recent
                    /\ last.raw = D_stamped => iso_date(r.published_at) = Prefix(D_stamped, 10)
                    /\ last.raw = D_old => iso_date(r.published_at) = D_old
                    /\ written.published_at = r.published_at

\* a page dated 2024-13-40 was ingested and stored under the ingestion date
C19_Witness ==
    /\ last.op = "fetch_and_store" /\ last.ret = "True"
    /\ last.raw = D_invalid
    /\ \E r \in docs : r.id = last.doc.id /\ r.published_at = Today


(***************************************************************************)
(* The wall-clock budget of one query                                      *)
(***************************************************************************)

\* C20 as stated: a query that has run for more than the budget of
\* PIPELINE_HARD_TIMEOUT seconds never returns a generation result: what
\* run_query returns then is not the repair of what the Generator replied.
C20_NoGenerationResultAfterBudget ==
    (pc = "done" /\ elapsed > PIPELINE_HARD_TIMEOUT) =>
        ~ /\ synthCalls = 1 /\ reply.k = "reply"
          /\ IsObj(json_or_repair(reply.content))
          /\ raw = Dumps(json_or_repair(reply.content))
          /\ answer = vout_run(raw).v


(***************************************************************************)
(* Orchestrator.ingest, called by several callers at once on one store     *)
(***************************************************************************)
Callers == 2
MaxLinks == 2

\* the url lists handed to ingest (crawl_adjacent=False: links = [u])
IngestLists ==
    UNION {[1..n -> IngestUrls] : n \in 1..MaxLinks}

\* the pages the urls serve while the calls run
IngestPages == {p \in Pages : p.title # <<>> /\ p.text = T_cafe}

NoPage == [title |-> <<>>, text |-> <<>>, date |-> <<>>]

\* an ingest call about to start: added = 0, at the first url
NewCall(urls) ==
    [pc |-> "fetch", urls |-> urls, page |-> NoPage, added |-> 0, storeFailed |-> FALSE,
     ret |-> "none"]

InitIngest ==
    /\ docs = {} /\ log = <<>> /\ last = NoOp /\ prev = NoOp
    /\ envRelax = EnvUnset /\ relax = DemoEvidenceRelax(envRelax) /\ hasKey = FALSE
    /\ QueryIdle
    /\ evIn = <<>> /\ evOut = JNone /\ repIn = JNone /\ repOut = JNone /\ RecentIdle
    /\ fbIn = JNone /\ fbOut = JNone
    /\ ing \in [1..Callers -> {NewCall(urls) : urls \in IngestLists}]

\* the loop goes on to the next link
NextLink(call) == [call EXCEPT !.pc = "fetch", !.urls = Tail(@), !.page = NoPage]

\* fetch_and_store: requests.get(url) returns `page`
IngFetch(c, page) ==
    /\ ing[c].pc = "fetch" /\ ing[c].urls # <<>>
    /\ ing' = [ing EXCEPT ![c] = [@ EXCEPT !.pc = "check", !.page = page]]
    /\ UNCHANGED <<docs, log>>

\* fetch_and_store: requests.get or raise_for_status raises; ingest logs a
\* warning and goes on
IngFetchRaises(c) ==
    /\ ing[c].pc = "fetch" /\ ing[c].urls # <<>>
    /\ ing' = [ing EXCEPT ![c] = NextLink(@)]
    /\ UNCHANGED <<docs, log>>

\* fetch_and_store: if self.dao.exists_ud(url, title): return False. The
\* check is a transaction of its own. With the store unreachable
\* (up = FALSE) sqlite raises, and ingest's `except Exception` logs a
\* warning and goes on.
IngCheck(c, up) ==
    LET call == ing[c]
        url == Head(call.urls)
    IN  /\ call.pc = "check"
        /\ ing' = [ing EXCEPT ![c] =
                      IF ~up THEN [NextLink(@) EXCEPT !.storeFailed = TRUE]
                      ELSE IF exists_ud(docs, url, TitleOf(url, call.page)) THEN NextLink(@)
                      ELSE [@ EXCEPT !.pc = "write"]]
        /\ UNCHANGED <<docs, log>>

\* fetch_and_store: self.dao.upsert_doc(doc), the append to the JSONL file,
\* return True, and ingest's added += 1. The upsert is one transaction;
\* with the store unreachable it raises, nothing is written, and ingest
\* logs a warning and goes on.
IngWrite(c, up) ==
    LET call == ing[c]
        doc == DocOf(Head(call.urls), call.page)
    IN  /\ call.pc = "write"
        /\ IF up
           THEN /\ docs' = upsert_doc(docs, doc)
                /\ log' = Append(log, doc)
                /\ ing' = [ing EXCEPT ![c] = [NextLink(@) EXCEPT !.added = @ + 1]]
           ELSE /\ ing' = [ing EXCEPT ![c] = [NextLink(@) EXCEPT !.storeFailed = TRUE]]
                /\ UNCHANGED <<docs, log>>

\* return added
IngReturn(c) ==
    /\ ing[c].pc = "fetch" /\ ing[c].urls = <<>>
    /\ ing' = [ing EXCEPT ![c] = [@ EXCEPT !.pc = "returned", !.ret = "added"]]
    /\ UNCHANGED <<docs, log>>

NextIngest ==
    \/ \E c \in 1..Callers, p \in IngestPages :
          IngFetch(c, p) /\ UNCHANGED <<last, prev, cfgVars, queryVars, pureVarsButIng>>
    \/ \E c \in 1..Callers :
          IngFetchRaises(c) /\ UNCHANGED <<last, prev, cfgVars, queryVars, pureVarsButIng>>
    \/ \E c \in 1..Callers, up \in BOOLEAN :
          IngCheck(c, up) /\ UNCHANGED <<last, prev, cfgVars, queryVars, pureVarsButIng>>
    \/ \E c \in 1..Callers, up \in BOOLEAN :
          IngWrite(c, up) /\ UNCHANGED <<last, prev, cfgVars, queryVars, pureVarsButIng>>
    \/ \E c \in 1..Callers :
          IngReturn(c) /\ UNCHANGED <<last, prev, cfgVars, queryVars, pureVarsButIng>>

SpecIngest == InitIngest /\ [][NextIngest]_vars

\* C21 as stated: an ingest call during which a store operation failed
\* surfaces the failure to its caller instead of returning a count.
C21_StoreFailureSurfaced ==
    \A c \in DOMAIN ing :
        (ing[c].pc = "returned" /\ ing[c].storeFailed) => ing[c].ret = "raise"

\* C22 as stated: under any interleaving of concurrent ingestions no two
\* stored documents share the dedup key of trimmed url and trimmed title.
C22_ConcurrentDedupKeyUnique ==
    \A r1, r2 \in docs :
        (Strip(r1.url) = Strip(r2.url) /\ Strip(r1.title) = Strip(r2.title)) => r1 = r2

\* the sum of the added counts of the first n calls
RECURSIVE AddedUpTo(_)
AddedUpTo(n) == IF n = 0 THEN 0 ELSE ing[n].added + AddedUpTo(n - 1)

\* C27 as stated: once every ingest call has returned, the sum of the added
\* counts is the number of stored documents and the number of log records.
C27_AddedEqualsStoredEqualsLogged ==
    (ing # <<>> /\ \A c \in DOMAIN ing : ing[c].pc = "returned") =>
        LET total == AddedUpTo(Len(ing))
        IN  total = Cardinality(docs) /\ total = Len(log)


(***************************************************************************)
(* The Pre-Validator                                                       *)
(***************************************************************************)

\* C23 as stated: the query object ValidatorInAgent.run returns has the
\* domain IntakeAgent.run gave when that is present and non-empty and
\* "general" otherwise, the location given or else the default locale, and
\* the details given or else the empty string.
C23_QueryDefaults ==
    (pc = "retrieve" /\ intakeCalls = 1) =>
        LET given == intake_run(userText, reply).v
            default(k, v) == IF k \in DOMAIN given.kv THEN given.kv[k] ELSE v
        IN  /\ IsObj(uq)
            /\ {"domain", "location", "details"} \subseteq DOMAIN uq.kv
            /\ uq.kv["domain"] = IF Truthy(Get(given, "domain", JNone))
                                 THEN given.kv["domain"] ELSE JStr(S_general)
            /\ uq.kv["location"] = default("location", JStr(S_location))
            /\ uq.kv["details"] = default("details", JStr(<<>>))


(***************************************************************************)
(* The local fallback on its own: _local_fallback applied to a query and   *)
(* an item list, and its result handed to ValidatorOutAgent.run            *)
(***************************************************************************)
ExtraItems == 2

\* a title of n characters
TitleOfLen(n) == [i \in 1..n |-> "x"]

\* evidence items as _search builds them: titles of 1, 81 and 80 characters
FbItemSeq ==
    << [url |-> U_a1, title |-> <<"K">>, date |-> <<2025, 11, 10>>, text |-> T_cafe],
       [url |-> U_b1, title |-> TitleOfLen(81), date |-> <<2025, 11, 9>>, text |-> T_oil],
       [url |-> U_ftp, title |-> TitleOfLen(80), date |-> <<2025, 8, 22>>, text |-> T_oil] >>

\* item lists: every list of up to two items, and lists of four and more
\* items that run through the three items in turn
FbLists ==
    UNION {[1..n -> {FbItemSeq[j] : j \in 1..3}] : n \in 0..2}
        \cup { [i \in 1..n |-> FbItemSeq[((i + k) % 3) + 1]] :
                 n \in 4..(5 + ExtraItems), k \in 0..2 }

\* query objects as the Pre-Validator returns them to run
FbQueries ==
    { JObj([domain |-> d, location |-> JStr(S_location), details |-> JStr(<<>>)]) :
        d \in {JStr(W_cafe), JStr(<<"O", "i", "l">>), JStr(<<>>), JNone} }

InitFallback ==
    /\ docs = {} /\ log = <<>> /\ last = NoOp /\ prev = NoOp
    /\ envRelax = EnvUnset /\ relax = DemoEvidenceRelax(envRelax) /\ hasKey = FALSE
    /\ QueryIdle
    /\ evIn = <<>> /\ evOut = JNone /\ repIn = JNone /\ repOut = JNone /\ RecentIdle
    /\ ing = <<>>
    /\ fbIn \in [q : FbQueries, its : FbLists]
    /\ fbOut = JNone

\* _local_fallback(uq, items), then ValidatorOutAgent.run on its json.dumps
LocalFallback ==
    /\ fbOut = JNone
    /\ LET fb == local_fallback(fbIn.q, fbIn.its)
       IN  fbOut' = [fb |-> fb, rep |-> vout_run(Dumps(fb))]
    /\ UNCHANGED <<storeVars, cfgVars, queryVars, evIn, evOut, repIn, repOut, kwIn, daysIn,
                   rowsOut, ing, fbIn>>

NextFallback == LocalFallback

SpecFallback == InitFallback /\ [][NextFallback]_vars

\* C24 as stated: the fallback's sources are the url, title and date of the
\* first min(5, n) items in retrieval order, its evidence is one
\* "<domain>: <title>" per source, and ValidatorOutAgent.run returns on it
\* and keeps its two niches, three plan weeks, two risks and four notes.
C24_FallbackSourcesAreItems ==
    fbOut # JNone =>
        LET its == fbIn.its
            n == IF Len(its) < 5 THEN Len(its) ELSE 5
            fb == fbOut.fb.kv
        IN  /\ Len(fb["sources"].xs) = n /\ Len(fb["evidence"].xs) = n
            /\ \A i \in 1..n :
                  /\ fb["sources"].xs[i] =
                        JObj([url |-> JStr(its[i].url), title |-> JStr(its[i].title),
                              date |-> JStr(iso_date(its[i].date))])
                  /\ fb["evidence"].xs[i] =
                        JStr(domain_of(its[i].url) \o <<":", " ">> \o its[i].title)
            /\ fbOut.rep.exc = ""

\* C24, amended: as C24, with each source's title cut to the item title's
\* first 80 characters, in sources and in evidence alike; the repaired
\* fallback has the fallback's two niches, three plan weeks, two risks and
\* four notes unchanged.
C24_FallbackSourcesAreItemsCut ==
    fbOut # JNone =>
        LET its == fbIn.its
            n == IF Len(its) < 5 THEN Len(its) ELSE 5
            cut(t) == IF Len(t) > 80 THEN SubSeq(t, 1, 80) ELSE t
            fb == fbOut.fb.kv
        IN  /\ Len(fb["sources"].xs) = n /\ Len(fb["evidence"].xs) = n
            /\ \A i \in 1..n :
                  /\ fb["sources"].xs[i] =
                        JObj([url |-> JStr(its[i].url), title |-> JStr(cut(its[i].title)),
                              date |-> JStr(iso_date(its[i].date))])
                  /\ fb["evidence"].xs[i] =
                        JStr(domain_of(its[i].url) \o <<":", " ">> \o cut(its[i].title))
            /\ fbOut.rep.exc = ""
            /\ LET out == fbOut.rep.v.v.kv
               IN  /\ Len(out["local_niches"].xs) = 2 /\ Len(out["90_day_plan"].xs) = 3
                   /\ Len(out["risks"].xs) = 2 /\ Len(out["unit_economics_notes"].xs) = 4
                   /\ \A k \in {"local_niches", "90_day_plan", "risks", "unit_economics_notes"} :
                         out[k] = fb[k]

\* a fallback was built from more than five items, one of the first five
\* with a title of more than 80 characters, and repair returned on it
C24_Witness ==
    /\ fbOut # JNone /\ fbOut.rep.exc = ""
    /\ Len(fbIn.its) > 5
    /\ \E i \in 1..5 : Len(fbIn.its[i].title) > 80
    /\ Len(fbOut.fb.kv["sources"].xs) = 5


(***************************************************************************)
(* Keyword expansion                                                       *)
(***************************************************************************)

\* C25: the keyword list _search expands from a query domain that is a
\* text is empty for the empty domain; otherwise it has no duplicates, its
\* first element is the domain as given, and it holds the domain followed
\* by the synonyms of every KEYWORDS key that is a substring of the
\* lower-cased domain, in table order, first occurrences kept.
C25_ExpansionOrderedDuplicateFree ==
    (IsObj(uq) /\ IsStr(Get(uq, "domain", JNone))) =>
        LET d == uq.kv["domain"].s
            kws == expand_kws(d)
            hit(k) == IF Contains(Lower(d), KEYWORDS[k].key) THEN KEYWORDS[k].arr ELSE <<>>
            all == <<d>> \o hit(1) \o hit(2) \o hit(3)
            first(x) == CHOOSE i \in 1..Len(all) :
                            all[i] = x /\ \A j \in 1..(i - 1) : all[j] # x
        IN  /\ Len(KEYWORDS) = 3
            /\ d = <<>> => kws = <<>>
            /\ d # <<>> =>
                  /\ kws[1] = d
                  /\ \A i, j \in 1..Len(kws) : i # j => kws[i] # kws[j]
                  /\ {kws[i] : i \in 1..Len(kws)} = {all[i] : i \in 1..Len(all)}
                  /\ \A i, j \in 1..Len(kws) : i < j => first(kws[i]) < first(kws[j])

\* retrieval ran for a domain that names two keys of the table whose
\* synonym lists overlap, and the expansion holds each synonym once
C25_Witness ==
    /\ gate # "none"
    /\ IsObj(uq) /\ IsStr(Get(uq, "domain", JNone))
    /\ LET d == uq.kv["domain"].s
       IN  /\ Contains(Lower(d), KEYWORDS[1].key) /\ Contains(Lower(d), KEYWORDS[2].key)
           /\ d # Lower(d)
           /\ Len(expand_kws(d)) < 1 + Len(KEYWORDS[1].arr) + Len(KEYWORDS[2].arr)


(***************************************************************************)
(* Document ids                                                            *)
(***************************************************************************)

\* C26: after any sequence of ingestions and direct upserts the store holds
\* at most one document per id; the stored documents that ingestion
\* produced (those under the id of an ingested url) are as many as the
\* distinct urls ingested with success; and no operation removes a
\* document: every id stored stays stored.
C26_OneDocumentPerIdNoneRemoved ==
    /\ [](\A r1, r2 \in docs : r1.id = r2.id => r1 = r2)
    /\ [](LET urls == {log[i].url : i \in 1..Len(log)}
          IN  Cardinality({r \in docs : \E u \in urls : r.id = Md5(u)}) = Cardinality(urls))
    /\ [][ /\ {r.id : r \in docs} \subseteq {r.id : r \in docs'}
           /\ Cardinality(docs') >= Cardinality(docs) ]_vars

\* one url was ingested twice with success, another document was upserted
\* directly, and the store holds one document for the url
C26_Witness ==
    /\ Len(log) = 2 /\ log[1].url = log[2].url /\ log[1] # log[2]
    /\ last.op = "upsert_doc"
    /\ Cardinality({r \in docs : r.id = Md5(log[1].url)}) = 1
    /\ Cardinality(docs) = 2


(***************************************************************************)
(* The evidence gate as the store grows: upserts into a store, judged by   *)
(* what run would decide for one query before and after                    *)
(***************************************************************************)

\* the day k days before today
WindowDay(k) ==
    CHOOSE d \in {2025} \X (1..12) \X (1..31) :
        d[3] <= DaysInMonth(d[1], d[2]) /\ Ordinal(Today) - Ordinal(d) = k

\* n rows about cafes inside the evidence window: one from domain b on the
\* window's first day, and n - 1 from domain a, one on each of the 90 days
\* after it and the rest doubling the days from 10 days ago back
GateStore(n) ==
    LET U_a == <<"h", "t", "t", "p", ":", "/", "/", "a", "/">>
    IN  { StoredRow(U_a \o iso_date(WindowDay(k)), W_cafe, T_oil, WindowDay(k)) :
            k \in 0..(EVIDENCE_WINDOW_DAYS - 1) }
        \cup { StoredRow(U_a \o <<"x">> \o iso_date(WindowDay(k)), W_cafe, T_oil, WindowDay(k)) :
                 k \in 10..(n - EVIDENCE_WINDOW_DAYS + 8) }
        \cup { StoredRow(U_b1, W_cafe, T_oil, WindowDay(EVIDENCE_WINDOW_DAYS)) }

\* documents upserted into the store: new urls of domains a and c dated
\* today and yesterday, and one of domain b dated before the window
GateDocs ==
    { [id |-> Md5(u), url |-> u, domain |-> domain_of(u), lang |-> "ru",
       published_at |-> d, title |-> W_cafe, tags |-> <<>>, summary |-> <<>>,
       text |-> T_oil] :
      <<u, d>> \in { <<<<"h", "t", "t", "p", ":", "/", "/", "a", "/", "n">>, Today>>,
                     <<<<"h", "t", "t", "p", ":", "/", "/", "c", "/", "n">>, WindowDay(1)>>,
                     <<<<"h", "t", "t", "p", ":", "/", "/", "b", "/", "n">>, <<2024, 6, 1>>>> } }

\* the query objects the gate is judged for: a domain, and none
GateQueries ==
    { JObj([domain |-> d, location |-> JStr(S_location), details |-> JStr(<<>>)]) :
        d \in {JStr(W_cafe), JStr(<<>>)} }

InitGate ==
    /\ docs \in (SUBSET RecentRows) \cup {GateStore(n) : n \in {SearchCap - 1, SearchCap}}
    /\ log = <<>> /\ last = NoOp /\ prev = NoOp
    /\ envRelax \in {EnvUnset, EnvSet(<<"1">>)} /\ relax = DemoEvidenceRelax(envRelax)
    /\ hasKey = FALSE
    /\ pc = "idle" /\ userText = <<>> /\ uq \in GateQueries /\ items = <<>>
    /\ gate = "none" /\ raw = JNone /\ answer = JNone /\ exc = ""
    /\ intakeCalls = 0 /\ synthCalls = 0 /\ gen = "none" /\ reply = GenNone
    /\ elapsed = 0
    /\ PureIdle

NextGate ==
    \E d \in GateDocs : UpsertDirect(d) /\ UNCHANGED <<cfgVars, queryVars, pureVars>>

SpecGate == InitGate /\ [][NextGate]_vars

\* C28 as stated: when run's evidence gate passes for a query on a store,
\* it still passes for the same query, on the same day, after one more
\* document has been upserted.
C28_GateMonotoneUnderUpsert ==
    [][ LET passes(rows) ==
                \A r \in rs_search(rows, uq) : r.exc = "" /\ evidence_ok(r.v, relax).ok
        IN  (Cardinality(docs') = Cardinality(docs) + 1 /\ passes(docs)) => passes(docs')
      ]_vars


(***************************************************************************)
(* Repairing a repaired Answer                                             *)
(***************************************************************************)

\* C29: output repair is idempotent: whenever ValidatorOutAgent.run returns
\* an Answer, run applied to that Answer on the same day returns it again.
C29_RepairIdempotent ==
    (repOut # JNone /\ repOut.exc = "") => vout_run(repOut.v) = repOut


\* repair returned an Answer that differs from its input and holds a niche
\* and a source
C29_Witness ==
    /\ repOut # JNone /\ repOut.exc = ""
    /\ repOut.v # repIn
    /\ repOut.v.v.kv["local_niches"].xs # <<>>
    /\ repOut.v.v.kv["sources"].xs # <<>>

====
